---- MODULE Spec2Model ----
(***************************************************************************)
(* A model of the compliance-ledger node: db.js (sqlite tables bchain,     *)
(* mempool_transactions, confirmed_transactions), routes/transactions.js,  *)
(* routes/blocks.js and routes/network.js, as run by index.js.             *)
(*                                                                         *)
(* Every JavaScript string is a sequence of tokens, so that `+` is \o and  *)
(* a digest is a bracketed copy of what was hashed (an injective hash).    *)
(* A JavaScript object is a function from the names of the fields it has   *)
(* to their values; a field it lacks reads as undefined.                   *)
(***************************************************************************)
EXTENDS Naturals, Sequences, FiniteSets, TLC

\* ------------------------------------------------------------------ bounds
NumNodes == 3
MaxTx == 2
MaxTasks == 3
MaxMinerTasks == 4
MaxRegistrations == 2
MaxListLen == 3
MaxTime == 1

\* ------------------------------------------------------- program constants
BLOCK_SIZE == 100
\* const MINE_THRESHOLD = 100 of index.js, the number of pending transactions at which
\* the timer mines. A mempool of a hundred rows is out of reach here, so the threshold
\* is set to the most rows the mempool can hold.
MINE_THRESHOLD == MaxTx

Nodes == 0 .. (NumNodes - 1)
\* the addresses a node can be told of: those of the nodes, and one more at which
\* nobody listens
Addresses == 0 .. NumNodes
Slots == 1 .. MaxTasks
\* the slots of a node whose miners compete: one request more
MinerSlots == 1 .. MaxMinerTasks

\* process.argv[4] of node n; index.js hands it to db.setProjId
ProjId(n) == <<ToString(n)>>
\* the node started with project id '0' is the regulator
IsRegAuth(n) == ProjId(n) = <<"0">>

\* ------------------------------------------------------------ JS helpers
Has(o, f) == f \in DOMAIN o
NoObj == <<>>
\* {...a, ...b}: the fields of b override those of a
Merge(a, b) == [f \in (DOMAIN a) \cup (DOMAIN b) |-> IF f \in DOMAIN b THEN b[f] ELSE a[f]]

Sha256(s) == <<"sha256(">> \o s \o <<")">>
NumStr(k) == <<ToString(k)>>
\* new Date().toISOString() at clock value t
IsoTime(t) == <<"T" \o ToString(t)>>
\* uuidv4().split('-').join(''), the k-th identifier drawn
Uuid(k) == <<"uuid" \o ToString(k)>>

\* the field names of a transaction object, in serialisation order
FieldOrder == <<"submitterId", "reading", "transactionId", "projId", "timestamp", "rawDataJson", "rowHash">>

RECURSIVE JsonFields(_, _)
JsonFields(o, i) ==
    IF i > Len(FieldOrder) THEN <<>>
    ELSE (IF Has(o, FieldOrder[i]) THEN <<FieldOrder[i], ":">> \o o[FieldOrder[i]] \o <<",">> ELSE <<>>)
         \o JsonFields(o, i + 1)

\* JSON.stringify of a transaction object: fields that are undefined are left out
Json(o) == <<"{">> \o JsonFields(o, 1) \o <<"}">>

\* string + undefined
StrOrUndefined(o, f) == IF Has(o, f) THEN o[f] ELSE <<"undefined">>

\* a value that is null, a string or an object (a row of bchain)
JsNull == [kind |-> "null", str |-> <<>>, row |-> NoObj]
JsStr(s) == [kind |-> "str", str |-> s, row |-> NoObj]
JsRow(r) == [kind |-> "obj", str |-> <<>>, row |-> r]
\* string + value
ToStr(v) == IF v.kind = "null" THEN <<"null">>
            ELSE IF v.kind = "str" THEN v.str
            ELSE <<"[object Object]">>
Truthy(v) == v.kind = "obj" \/ (v.kind = "str" /\ v.str # <<>>)
\* a === b where a was parsed from a request body (or built in the handler) and b was
\* read from the database: two objects are never the same object
StrictEq(a, b) == /\ a.kind = b.kind
                  /\ IF a.kind = "null" THEN TRUE
                     ELSE IF a.kind = "str" THEN a.str = b.str
                     ELSE FALSE

\* ------------------------------------------------------------- Merkle tree
\* a pairing that does not tell the left hash from the right one
RECURSIVE PairUpUnordered(_)
PairUpUnordered(hs) ==
    IF Len(hs) = 0 THEN <<>>
    ELSE LET x == CHOOSE h \in {hs[1], hs[2]} : TRUE
             y == IF x = hs[1] THEN hs[2] ELSE hs[1]
         IN  <<Sha256(x \o y)>> \o PairUpUnordered(SubSeq(hs, 3, Len(hs)))

RECURSIVE PairUp(_)
PairUp(hs) == IF Len(hs) = 0 THEN <<>>
              ELSE <<Sha256(hs[1] \o hs[2])>> \o PairUp(SubSeq(hs, 3, Len(hs)))

\* a reduction that carries the last hash of an odd level up as it is
RECURSIVE MerkleReduceCarry(_)
MerkleReduceCarry(hs) ==
    IF Len(hs) = 1 THEN hs[1]
    ELSE IF Len(hs) % 2 # 0
    THEN MerkleReduceCarry(Append(PairUp(SubSeq(hs, 1, Len(hs) - 1)), hs[Len(hs)]))
    ELSE MerkleReduceCarry(PairUp(hs))

RECURSIVE MerkleReduce(_)
MerkleReduce(hs) ==
    IF Len(hs) = 1 THEN hs[1]
    ELSE MerkleReduce(PairUp(IF Len(hs) % 2 # 0 THEN Append(hs, hs[Len(hs)]) ELSE hs))

\* a root over the identifiers of the transactions alone
calculateMerkleRootOverIds(transactions) ==
    IF Len(transactions) = 0 THEN <<"0">>
    ELSE MerkleReduce([i \in 1 .. Len(transactions) |-> Sha256(transactions[i].transactionId)])

calculateMerkleRoot(transactions) ==
    IF Len(transactions) = 0 THEN <<"0">>
    ELSE MerkleReduce([i \in 1 .. Len(transactions) |-> Sha256(Json(transactions[i]))])

\* const blockString = index + timestamp + merkleRoot + previousHash + nonce
BlockString(b) ==
    NumStr(b.index) \o b.timestamp \o b.merkleRoot \o ToStr(b.previousHash)
    \o (IF Has(b, "nonce") THEN NumStr(b.nonce) ELSE <<"undefined">>)

\* JSON.parse of a string Json wrote: a field's value runs to the next "," outside braces
RECURSIVE ValueEnd(_, _, _)
ValueEnd(s, i, depth) ==
    IF s[i] = "," /\ depth = 0 THEN i
    ELSE ValueEnd(s, i + 1, IF s[i] = "{" THEN depth + 1 ELSE IF s[i] = "}" THEN depth - 1 ELSE depth)

RECURSIVE ParseFields(_, _)
ParseFields(s, i) ==
    IF s[i] = "}" THEN NoObj
    ELSE LET e == ValueEnd(s, i + 2, 0)
         IN  (s[i] :> SubSeq(s, i + 2, e - 1)) @@ ParseFields(s, e + 1)

JsonParse(s) == ParseFields(s, 2)

\* ---------------------------------------------------------------- state
VARIABLES
    bchain,        \* per node, the rows of table bchain in insertion order
    mempool,       \* per node, the rows of table mempool_transactions in insertion order
    confirmed,     \* per node, the rows of table confirmed_transactions
    txn,           \* per node, the open database transaction (one connection per node)
    networkNodes,  \* per node, the list networkNodes of routes/network.js
    nextUuid,      \* how many identifiers uuidv4 has handed out
    now,           \* the clock as new Date() last read it
    tasks          \* the request handlers, in flight or finished, one per slot

vars == <<bchain, mempool, confirmed, txn, networkNodes, nextUuid, now, tasks>>

\* ----------------------------------------------------------- the database
GenesisBlock ==
    [id |-> 1,
     blockIndex |-> 0,
     timestamp |-> IsoTime(0),
     transactions |-> <<>>,
     nonce |-> 0,
     hash |-> Sha256(<<"regulator_genesis_block_v1">>),
     previousBlockHash |-> <<"0">>,
     merkleRoot |-> Sha256(<<"genesis_merkle_root_v1">>)]

\* initDb: the tables exist; only the regulator's chain gets a genesis block
initDb(n) == IF IsRegAuth(n) THEN <<GenesisBlock>> ELSE <<>>

\* no transaction is open on the connection. An open one keeps what ROLLBACK restores,
\* the handler that began it (owner) and the handlers that have run a statement in it
NoTxn == [open |-> FALSE, bchain |-> <<>>, mempool |-> <<>>, confirmed |-> <<>>,
          owner |-> 0, ran |-> {}]

\* SELECT * FROM bchain ORDER BY blockIndex DESC LIMIT 1
getLastBlock(rows) ==
    IF Len(rows) = 0 THEN JsNull
    ELSE JsRow(rows[CHOOSE i \in 1 .. Len(rows) :
                      \A j \in 1 .. Len(rows) : rows[j].blockIndex <= rows[i].blockIndex])

\* SELECT COUNT(*) FROM mempool_transactions
getMempoolCount(rows) == Len(rows)

\* the clock value an ISO timestamp was written from
TimeOf(s) == CHOOSE t \in 0 .. MaxTime : IsoTime(t) = s

Min(a, b) == IF a < b THEN a ELSE b

\* a sort by timestamp that returns rows of equal timestamp in any order
TimestampOrdersUnstable(rows) ==
    {p \in [1 .. Len(rows) -> 1 .. Len(rows)] :
        /\ \A i, j \in 1 .. Len(rows) : i # j => p[i] # p[j]
        /\ \A i, j \in 1 .. Len(rows) :
              i < j => TimeOf(rows[p[i]].timestamp) <= TimeOf(rows[p[j]].timestamp)}

\* the order in which ORDER BY timestamp ASC returns the rows. The table has no index
\* on timestamp, so SQLite scans it by internal_id and sorts; its sorter key is the
\* timestamp followed by the number of the row in the scan, so rows of equal timestamp
\* come out as they went in. The rows are kept here in the order of their insertion.
TimestampOrders(rows) ==
    {p \in [1 .. Len(rows) -> 1 .. Len(rows)] :
        /\ \A i, j \in 1 .. Len(rows) : i # j => p[i] # p[j]
        /\ \A i, j \in 1 .. Len(rows) :
              i < j => \/ TimeOf(rows[p[i]].timestamp) < TimeOf(rows[p[j]].timestamp)
                       \/ /\ TimeOf(rows[p[i]].timestamp) = TimeOf(rows[p[j]].timestamp)
                          /\ p[i] < p[j]}

\* one row of mempool_transactions as getTransactionsForBlock returns it
RowToTx(row) ==
    Merge(JsonParse(row.raw_data_json),
          [transactionId |-> row.transaction_id,
           projId |-> row.projId,
           timestamp |-> row.timestamp,
           rowHash |-> row.rowHash])

\* SELECT * FROM mempool_transactions ORDER BY timestamp ASC LIMIT ?: the possible results
getTransactionsForBlock(rows, limit) ==
    {[i \in 1 .. Min(limit, Len(rows)) |-> RowToTx(rows[p[i]])] : p \in TimestampOrders(rows)}

\* createTransaction: what it would insert and resolve with for transactionData, given
\* the identifier and the time it draws
NewTransaction(n, transactionData, k, t) ==
    LET transactionId == Uuid(k)
        timestamp == IsoTime(t)
        rawDataJson == Json(transactionData)
        transactionHash == Sha256(transactionId \o timestamp \o rawDataJson)
    IN  [ok |-> Has(transactionData, "submitterId"),
         row |-> [transaction_id |-> transactionId,
                  projId |-> ProjId(n),
                  timestamp |-> timestamp,
                  submitter_id |-> StrOrUndefined(transactionData, "submitterId"),
                  raw_data_json |-> rawDataJson,
                  rowHash |-> transactionHash],
         resolved |-> Merge([transactionId |-> transactionId,
                             timestamp |-> timestamp,
                             rowHash |-> transactionHash,
                             projId |-> ProjId(n)],
                            transactionData)]

\* INSERT INTO mempool_transactions: submitter_id is NOT NULL, transaction_id is UNIQUE
MempoolInsertError(rows, new) ==
    IF ~new.ok THEN "SQLITE_CONSTRAINT: NOT NULL constraint failed"
    ELSE IF \E i \in 1 .. Len(rows) : rows[i].transaction_id = new.row.transaction_id
         THEN "SQLITE_CONSTRAINT: UNIQUE constraint failed: mempool_transactions.transaction_id"
    ELSE ""

\* a removal of as many rows as identifiers were given, from the front of the table
removeOldestFromMempool(rows, ids) ==
    SubSeq(rows, Min(Cardinality(ids), Len(rows)) + 1, Len(rows))

\* DELETE FROM mempool_transactions WHERE transaction_id IN (ids)
RECURSIVE removeTransactionsFromMempool(_, _)
removeTransactionsFromMempool(rows, ids) ==
    IF Len(rows) = 0 THEN <<>>
    ELSE (IF rows[1].transaction_id \in ids THEN <<>> ELSE <<rows[1]>>)
         \o removeTransactionsFromMempool(Tail(rows), ids)

\* const { blockIndex, ..., previousBlockHash, ... } = block; the bchain row it inserts
\* with the transactions reduced to { transactionId, rowHash }
LightweightTransactions(transactions) ==
    [i \in 1 .. Len(transactions) |->
        [f \in DOMAIN transactions[i] \cap {"transactionId", "rowHash"} |-> transactions[i][f]]]

\* INSERT INTO bchain: every column is NOT NULL and blockIndex is UNIQUE; a field the
\* block lacks is bound as NULL
BchainInsertOk(rows, block) ==
    /\ \A f \in {"blockIndex", "timestamp", "nonce", "hash", "previousBlockHash", "merkleRoot"} :
          Has(block, f)
    /\ \A i \in 1 .. Len(rows) : rows[i].blockIndex # block.blockIndex

BchainRow(rows, block) ==
    [id |-> Len(rows) + 1,
     blockIndex |-> block.blockIndex,
     timestamp |-> block.timestamp,
     transactions |-> LightweightTransactions(block.transactions),
     nonce |-> block.nonce,
     hash |-> block.hash,
     previousBlockHash |-> block.previousBlockHash,
     merkleRoot |-> block.merkleRoot]

\* INSERT INTO confirmed_transactions: NOT NULL columns, UNIQUE transaction_id and the
\* foreign key block_id -> bchain(id)
ConfirmedInsertOk(rows, chain, tx, block_id) ==
    /\ \A f \in {"transactionId", "projId", "timestamp", "submitterId", "rawDataJson", "rowHash"} :
          Has(tx, f)
    /\ \A i \in 1 .. Len(rows) : rows[i].transaction_id # tx.transactionId
    /\ \E i \in 1 .. Len(chain) : chain[i].id = block_id

ConfirmedRow(tx, block_id) ==
    [transaction_id |-> tx.transactionId,
     block_id |-> block_id,
     projId |-> tx.projId,
     timestamp |-> tx.timestamp,
     submitter_id |-> tx.submitterId,
     raw_data_json |-> tx.rawDataJson,
     rowHash |-> tx.rowHash]

\* the inserts of insertTxPromises, run one after the other: the rows afterwards
RECURSIVE InsertConfirmed(_, _, _, _)
InsertConfirmed(rows, chain, txs, block_id) ==
    IF Len(txs) = 0 THEN rows
    ELSE InsertConfirmed(IF ConfirmedInsertOk(rows, chain, txs[1], block_id)
                         THEN Append(rows, ConfirmedRow(txs[1], block_id))
                         ELSE rows,
                         chain, Tail(txs), block_id)

\* whether one of them failed (Promise.all rejects)
RECURSIVE InsertConfirmedFails(_, _, _, _)
InsertConfirmedFails(rows, chain, txs, block_id) ==
    IF Len(txs) = 0 THEN FALSE
    ELSE IF ConfirmedInsertOk(rows, chain, txs[1], block_id)
         THEN InsertConfirmedFails(Append(rows, ConfirmedRow(txs[1], block_id)), chain, Tail(txs), block_id)
         ELSE TRUE

\* ------------------------------------------------------------ the requests
\* what a client posts to /api/transactions/submit
RawComplete == [submitterId |-> <<"s1">>, reading |-> <<"r1">>]
RawNoSubmitter == [reading |-> <<"r2">>]
RawInputs == {RawComplete, RawNoSubmitter}

\* a complete transaction as a peer sends it: identifier, timestamp, the serialised
\* data and the digest over the three
PeerTransaction ==
    LET id == <<"ext1">>
        ts == <<"T0">>
        raw == Json(RawComplete)
    IN  Merge(RawComplete,
              [transactionId |-> id, timestamp |-> ts, rawDataJson |-> raw,
               rowHash |-> Sha256(id \o ts \o raw)])
\* the same with its serialised data changed after hashing
TamperedTransaction == [PeerTransaction EXCEPT !.rawDataJson = Json(RawNoSubmitter)]
\* the same without its digest
NoHashTransaction == [f \in DOMAIN PeerTransaction \ {"rowHash"} |-> PeerTransaction[f]]
TxInputs == {PeerTransaction, TamperedTransaction, NoHashTransaction}

\* a block over transactions that links to the row head by its hash
BlockOn(index, prev, transactions) ==
    LET b == [index |-> index,
              timestamp |-> <<"T0">>,
              transactions |-> transactions,
              merkleRoot |-> calculateMerkleRoot(transactions),
              previousHash |-> prev,
              nonce |-> 0]
    IN  Merge(b, [hash |-> Sha256(BlockString(b))])

\* the blocks posted to /api/blocks/receive of a node whose chain is rows: one that
\* names the head's hash, one that names another hash, one without its hash, and the
\* blocks the miners of the network have built, as serialised
LinkedBlock(rows) ==
    LET head == getLastBlock(rows)
    IN  IF head.kind = "obj"
        THEN BlockOn(head.row.blockIndex + 1, JsStr(head.row.hash), <<PeerTransaction>>)
        ELSE BlockOn(1, JsStr(<<"0">>), <<PeerTransaction>>)
UnlinkedBlock == BlockOn(1, JsStr(Sha256(<<"unknown">>)), <<PeerTransaction>>)
NoHashBlock == [f \in DOMAIN UnlinkedBlock \ {"hash"} |-> UnlinkedBlock[f]]
\* one that names the head's hash and carries a transaction changed after the Merkle
\* root was computed, one that names the head's hash and carries another hash than its
\* own, and a complete first block numbered 0
BadMerkleBlock(rows) == [LinkedBlock(rows) EXCEPT !.transactions = <<TamperedTransaction>>]
BadHashBlock(rows) == [LinkedBlock(rows) EXCEPT !.hash = Sha256(<<"other">>)]
ZeroIndexBlock == BlockOn(0, JsStr(<<"0">>), <<PeerTransaction>>)

\* ----------------------------------------------------------- the handlers
IdleTask ==
    [kind |-> "idle", node |-> 0, pc |-> "idle", status |-> 0, note |-> "",
     tx |-> NoObj, pending |-> <<>>, head |-> JsNull, block |-> NoObj, blockId |-> 0,
     out |-> [p \in Addresses |-> "none"], caller |-> 0, url |-> 0, list |-> <<>>]

NewTask(kind, n) == [IdleTask EXCEPT !.kind = kind, !.node = n]

\* the slots are taken in order, one per request the network handles
Free(s) == /\ tasks[s].pc = "idle"
           /\ \A x \in 1 .. (s - 1) : tasks[x].pc # "idle"

BuiltBlocks == {tasks[s].block : s \in {x \in MinerSlots : tasks[x].kind = "mine" /\ tasks[x].block # NoObj}}
BlockInputs(n) == {LinkedBlock(bchain[n]), UnlinkedBlock, NoHashBlock} \cup BuiltBlocks
\* the blocks a node is sent when it is looked at on its own as a validator
SentBlocks(n) == {LinkedBlock(bchain[n]), UnlinkedBlock, NoHashBlock,
                  BadMerkleBlock(bchain[n]), BadHashBlock(bchain[n]), ZeroIndexBlock}

\* a string field of a request body is there and not empty
Given(o, f) == Has(o, f) /\ o[f] # <<>>

\* a receive route that looks for the fields and does not recompute the digest
ReceiveTransactionCheckNoDigest(transactionData) ==
    IF ~(Given(transactionData, "transactionId") /\ Given(transactionData, "timestamp")
         /\ Given(transactionData, "rowHash"))
    THEN "Missing mandatory transaction fields for reception."
    ELSE ""

\* router.post('/receive') of routes/transactions.js up to the insert: the note of the
\* 400 response, or "" when the transaction passes both checks
ReceiveTransactionCheck(transactionData) ==
    IF ~(Given(transactionData, "transactionId") /\ Given(transactionData, "timestamp")
         /\ Given(transactionData, "rowHash"))
    THEN "Missing mandatory transaction fields for reception."
    ELSE IF Sha256(transactionData.transactionId \o transactionData.timestamp
                   \o StrOrUndefined(transactionData, "rawDataJson")) # transactionData.rowHash
    THEN "Transaction hash mismatch. Data may be corrupted."
    ELSE ""

\* the whole of router.post('/receive') on node n: its status, its note and the mempool
\* rows afterwards; created says whether createTransaction was reached
ReceiveTransactionResult(n, transactionData, time) ==
    LET check == ReceiveTransactionCheck(transactionData)
        new == NewTransaction(n, transactionData, nextUuid + 1, time)
        err == MempoolInsertError(mempool[n], new)
    IN  IF check # "" THEN [status |-> 400, note |-> check, rows |-> mempool[n], created |-> FALSE]
        ELSE IF err = "" THEN [status |-> 201, note |-> "Transaction received and accepted into mempool.",
                               rows |-> Append(mempool[n], new.row), created |-> TRUE]
        ELSE IF err = "SQLITE_CONSTRAINT: UNIQUE constraint failed: mempool_transactions.transaction_id"
        THEN [status |-> 409, note |-> "Transaction ID already exists in mempool.",
              rows |-> mempool[n], created |-> TRUE]
        ELSE [status |-> 500, note |-> "Failed to accept received transaction.",
              rows |-> mempool[n], created |-> TRUE]

\* the caller of a fan-out learns how its call to peer p ended: Promise.all rejects on
\* the first failure and resolves when every call has succeeded. The registration route
\* then goes on to send the new node the list [...networkNodes, myNodeUrl].
AfterCall(t, p, outcome) ==
    LET out1 == [t.out EXCEPT ![p] = outcome]
    IN  IF t.status # 0 THEN [t EXCEPT !.out = out1]
        ELSE IF outcome = "fail"
        THEN [t EXCEPT !.out = out1, !.status = 500, !.pc = "done",
                       !.note = IF t.kind = "submit" THEN "Transaction broadcast failed."
                                ELSE IF t.kind = "register" THEN "Request failed."
                                ELSE "Failed to mine block."]
        ELSE IF \E q \in Addresses : out1[q] \in {"pending", "sent"}
        THEN [t EXCEPT !.out = out1]
        ELSE IF t.kind = "register"
        THEN [t EXCEPT !.out = out1, !.pc = "bulk",
                       !.list = Append(networkNodes[t.node], t.node)]
        ELSE [t EXCEPT !.out = out1, !.pc = "done",
                       !.status = IF t.kind = "submit" THEN 201 ELSE 200,
                       !.note = IF t.kind = "submit" THEN "Transaction created locally and broadcast successfully."
                                ELSE "Block mined and broadcast successfully."]

\* network.networkNodes.map(url => axios.post(...)): one call per peer of the list
CallsTo(peers) == [p \in Addresses |-> IF \E i \in 1 .. Len(peers) : peers[i] = p THEN "pending" ELSE "none"]

\* a handler responds; when a peer's fan-out started it, the peer learns the outcome
Respond(ts, s, status, note) ==
    LET t1 == [ts EXCEPT ![s].status = IF ts[s].status = 0 THEN status ELSE @,
                         ![s].note = IF ts[s].status = 0 THEN note ELSE @]
    IN  IF ts[s].caller = 0 \/ ts[s].status # 0 THEN t1
        ELSE [t1 EXCEPT ![ts[s].caller] =
                  AfterCall(@, ts[s].node, IF status \in 200 .. 299 THEN "ok" ELSE "fail")]

\* ------------------------------------------------------------------ Init
Init ==
    /\ bchain = [n \in Nodes |-> initDb(n)]
    /\ mempool = [n \in Nodes |-> <<>>]
    /\ confirmed = [n \in Nodes |-> <<>>]
    /\ txn = [n \in Nodes |-> NoTxn]
    /\ networkNodes = [n \in Nodes |-> <<>>]
    /\ nextUuid = 0
    /\ now = 0
    /\ tasks = [s \in MinerSlots |-> IdleTask]

\* --------------------------------------------------------------- actions
\* new Date(): the clock never runs backwards
ClockReads == now .. MaxTime

\* a registration that pushes whatever address it is given
PushAlways(peers, url, self) == Append(peers, url)

\* if (!networkNodes.includes(url) && url !== myNodeUrl) networkNodes.push(url), on the
\* list peers of the node at address self
PushNew(peers, url, self) ==
    IF (\A i \in 1 .. Len(peers) : peers[i] # url) /\ url # self THEN Append(peers, url) ELSE peers

\* allNodes.forEach of /register-nodes-bulk on the list peers of the node at self
RECURSIVE PushAll(_, _, _)
PushAll(peers, allNodes, self) ==
    IF allNodes = <<>> THEN peers
    ELSE PushAll(PushNew(peers, Head(allNodes), self), Tail(allNodes), self)

\* POST /register-node on node n with newNodeUrl the address u
RegisterNode(n, u) ==
    /\ networkNodes' = [networkNodes EXCEPT ![n] = PushNew(@, u, n)]
    /\ networkNodes'[n] # networkNodes[n]
    /\ UNCHANGED <<bchain, mempool, confirmed, txn, nextUuid, now, tasks>>

\* POST /register-nodes-bulk on node n from a client with allNetworkNodes allNodes
RegisterNodesBulk(n, allNodes) ==
    /\ networkNodes' = [networkNodes EXCEPT ![n] = PushAll(@, allNodes, n)]
    /\ networkNodes'[n] # networkNodes[n]
    /\ UNCHANGED <<bchain, mempool, confirmed, txn, nextUuid, now, tasks>>

\* POST /register-and-broadcast-node on node n with newNodeUrl u, handled in slot s: the
\* node adds u and calls /register-node of every address it then knows, u included
RegisterAndBroadcastNode(s, n, u) ==
    /\ Free(s)
    /\ LET peers == PushNew(networkNodes[n], u, n)
           t0 == [NewTask("register", n) EXCEPT !.url = u]
       IN  /\ networkNodes' = [networkNodes EXCEPT ![n] = peers]
           /\ tasks' = [tasks EXCEPT ![s] =
                  IF Len(peers) = 0
                  THEN [t0 EXCEPT !.pc = "bulk", !.list = Append(peers, n)]
                  ELSE [t0 EXCEPT !.pc = "bcast", !.out = CallsTo(peers)]]
    /\ UNCHANGED <<bchain, mempool, confirmed, txn, nextUuid, now>>

\* a new node that takes only the first address of the list it is sent
DeliverBulkFirstOnly(c) ==
    /\ tasks[c].kind = "register"
    /\ tasks[c].pc = "bulk"
    /\ tasks[c].url \in Nodes
    /\ networkNodes' = [networkNodes EXCEPT ![tasks[c].url] =
            PushNew(@, Head(tasks[c].list), tasks[c].url)]
    /\ tasks' = [tasks EXCEPT ![c].pc = "done", ![c].status = 200,
                              ![c].note = "New node registered with network."]
    /\ UNCHANGED <<bchain, mempool, confirmed, txn, nextUuid, now>>

\* the list of the registration in slot c reaches the new node, which runs
\* /register-nodes-bulk on it, and the registering node answers its client
DeliverBulk(c) ==
    /\ tasks[c].kind = "register"
    /\ tasks[c].pc = "bulk"
    /\ tasks[c].url \in Nodes
    /\ networkNodes' = [networkNodes EXCEPT ![tasks[c].url] = PushAll(@, tasks[c].list, tasks[c].url)]
    /\ tasks' = [tasks EXCEPT ![c].pc = "done", ![c].status = 200,
                              ![c].note = "New node registered with network."]
    /\ UNCHANGED <<bchain, mempool, confirmed, txn, nextUuid, now>>

\* the list does not reach the new node: the catch answers 500
FailBulk(c) ==
    /\ tasks[c].kind = "register"
    /\ tasks[c].pc = "bulk"
    /\ tasks' = [tasks EXCEPT ![c].pc = "done", ![c].status = 500, ![c].note = "Request failed."]
    /\ UNCHANGED <<bchain, mempool, confirmed, txn, networkNodes, nextUuid, now>>

\* a submit route that calls the peers whether or not its own insert went through
SubmitTransactionCallsAnyway(s, n, rawTransactionData, time) ==
    /\ Free(s)
    /\ nextUuid < MaxTx
    /\ now' = time
    /\ LET new == NewTransaction(n, rawTransactionData, nextUuid + 1, time)
           err == MempoolInsertError(mempool[n], new)
           t0 == [NewTask("submit", n) EXCEPT !.tx = new.resolved]
           peers == networkNodes[n]
       IN  /\ nextUuid' = nextUuid + 1
           /\ mempool' = IF err = "" THEN [mempool EXCEPT ![n] = Append(@, new.row)] ELSE mempool
           /\ tasks' = [tasks EXCEPT ![s] =
                  IF Len(peers) = 0
                  THEN [t0 EXCEPT !.status = 201, !.pc = "done",
                                  !.note = "Transaction created locally and broadcast successfully."]
                  ELSE [t0 EXCEPT !.pc = "bcast", !.out = CallsTo(peers)]]
    /\ UNCHANGED <<bchain, confirmed, txn, networkNodes>>

\* POST /api/transactions/submit on node n, handled in slot s
SubmitTransaction(s, n, rawTransactionData, time) ==
    /\ Free(s)
    /\ nextUuid < MaxTx
    /\ now' = time
    /\ LET new == NewTransaction(n, rawTransactionData, nextUuid + 1, time)
           err == MempoolInsertError(mempool[n], new)
           t0 == [NewTask("submit", n) EXCEPT !.tx = IF err = "" THEN new.resolved ELSE NoObj]
           peers == networkNodes[n]
       IN  /\ nextUuid' = nextUuid + 1
           /\ mempool' = IF err = "" THEN [mempool EXCEPT ![n] = Append(@, new.row)] ELSE mempool
           /\ tasks' = [tasks EXCEPT ![s] =
                  IF err # ""
                  THEN [t0 EXCEPT !.status = 500, !.note = "Transaction broadcast failed.", !.pc = "done"]
                  ELSE IF Len(peers) = 0
                  THEN [t0 EXCEPT !.status = 201, !.pc = "done",
                                  !.note = "Transaction created locally and broadcast successfully."]
                  ELSE [t0 EXCEPT !.pc = "bcast", !.out = CallsTo(peers)]]
    /\ UNCHANGED <<bchain, confirmed, txn, networkNodes>>

\* a receive route that passes an accepted transaction on to the peers it knows
ReceiveTransactionRebroadcast(s, n, transactionData, time) ==
    /\ Free(s)
    /\ LET r == ReceiveTransactionResult(n, transactionData, time)
       IN  /\ r.created => nextUuid < MaxTx
           /\ now' = IF r.created THEN time ELSE now
           /\ ~r.created => time = now
           /\ nextUuid' = IF r.created THEN nextUuid + 1 ELSE nextUuid
           /\ mempool' = [mempool EXCEPT ![n] = r.rows]
           /\ tasks' = [tasks EXCEPT ![s] =
                  [NewTask("recvTx", n) EXCEPT !.tx = transactionData, !.status = r.status,
                                               !.note = r.note, !.pc = "done",
                                               !.out = IF r.status = 201 THEN CallsTo(networkNodes[n])
                                                       ELSE @]]
    /\ UNCHANGED <<bchain, confirmed, txn, networkNodes>>

\* POST /api/transactions/receive on node n from a client, handled in slot s
ReceiveTransaction(s, n, transactionData, time) ==
    /\ Free(s)
    /\ LET r == ReceiveTransactionResult(n, transactionData, time)
       IN  /\ r.created => nextUuid < MaxTx
           /\ now' = IF r.created THEN time ELSE now
           /\ ~r.created => time = now
           /\ nextUuid' = IF r.created THEN nextUuid + 1 ELSE nextUuid
           /\ mempool' = [mempool EXCEPT ![n] = r.rows]
           /\ tasks' = [tasks EXCEPT ![s] =
                  [NewTask("recvTx", n) EXCEPT !.tx = transactionData, !.status = r.status,
                                               !.note = r.note, !.pc = "done"]]
    /\ UNCHANGED <<bchain, confirmed, txn, networkNodes>>

\* router.post('/receive') of routes/blocks.js before its first await: the field check
ReceiveBlockMalformed(newBlock) ==
    \/ ~Has(newBlock, "index") \/ newBlock.index = 0
    \/ ~Given(newBlock, "timestamp")
    \/ ~Has(newBlock, "transactions")
    \/ ~Given(newBlock, "merkleRoot")
    \/ ~Has(newBlock, "previousHash") \/ ~Truthy(newBlock.previousHash)
    \/ ~Given(newBlock, "hash")

\* the handler of POST /api/blocks/receive on node n as it starts for newBlock
StartReceiveBlock(n, newBlock, caller) ==
    LET t0 == [NewTask("recvBlock", n) EXCEPT !.block = newBlock, !.caller = caller]
    IN  IF ReceiveBlockMalformed(newBlock)
        THEN [t0 EXCEPT !.pc = "done", !.status = 400,
                        !.note = "Received block is missing required fields."]
        ELSE [t0 EXCEPT !.pc = "head"]

\* a call of a fan-out reaches peer p: the peer's handler runs
DeliverCall(c, p, time) ==
    /\ tasks[c].out[p] = "pending"
    /\ IF tasks[c].kind = "submit"
       THEN LET r == ReceiveTransactionResult(p, tasks[c].tx, time)
            IN  /\ r.created => nextUuid < MaxTx
                /\ now' = IF r.created THEN time ELSE now
                /\ ~r.created => time = now
                /\ nextUuid' = IF r.created THEN nextUuid + 1 ELSE nextUuid
                /\ mempool' = [mempool EXCEPT ![p] = r.rows]
                /\ tasks' = [tasks EXCEPT ![c] = AfterCall(@, p, IF r.status = 201 THEN "ok" ELSE "fail")]
                /\ UNCHANGED networkNodes
       ELSE IF tasks[c].kind = "register"
       THEN /\ networkNodes' = [networkNodes EXCEPT ![p] = PushNew(@, tasks[c].url, p)]
            /\ tasks' = [tasks EXCEPT ![c] = AfterCall(@, p, "ok")]
            /\ time = now
            /\ UNCHANGED <<mempool, nextUuid, now>>
       ELSE /\ \E s \in Slots :
                /\ Free(s)
                /\ s # c
                /\ LET t1 == StartReceiveBlock(p, tasks[c].block, c)
                   IN  tasks' = IF t1.pc = "done"
                                THEN [tasks EXCEPT ![s] = t1, ![c] = AfterCall(@, p, "fail")]
                                ELSE [tasks EXCEPT ![s] = t1,
                                                   ![c].out[p] = "sent"]
            /\ time = now
            /\ UNCHANGED <<mempool, nextUuid, now, networkNodes>>
    /\ UNCHANGED <<bchain, confirmed, txn>>

\* a call of a fan-out does not reach peer p (the peer is down, or answers 404)
FailCall(c, p) ==
    /\ tasks[c].out[p] = "pending"
    /\ tasks' = [tasks EXCEPT ![c] = AfterCall(@, p, "fail")]
    /\ UNCHANGED <<bchain, mempool, confirmed, txn, networkNodes, nextUuid, now>>

\* The statements of one connection run in the order they were queued. The statement
\* that ends a transaction is queued by the callback of the one before it, so between
\* the two run only statements that were already waiting: at most one of each other
\* handler, whose next statement is queued after its own callback.
InOrder(s, n) == txn[n].open => (txn[n].owner = s \/ s \notin txn[n].ran)

\* the connection of node n after the handler in slot s has run a statement
Ran(s, n) == IF txn[n].open /\ txn[n].owner # s
             THEN [txn EXCEPT ![n].ran = @ \cup {s}]
             ELSE txn

\* a transaction whose ROLLBACK leaves the chain table empty
BeginTransactionForgetsChain(s, n) ==
    [open |-> TRUE, bchain |-> <<>>, mempool |-> mempool[n], confirmed |-> confirmed[n],
     owner |-> s, ran |-> {}]

\* BEGIN TRANSACTION of the handler in slot s on the connection of node n: what a later
\* ROLLBACK brings back is the three tables as they are now
BeginTransaction(s, n) ==
    [open |-> TRUE, bchain |-> bchain[n], mempool |-> mempool[n], confirmed |-> confirmed[n],
     owner |-> s, ran |-> {}]

\* a handler that swallows the rejection and carries on with the eviction
AfterRejectGoesOn(resume) == resume

\* what the handler does once addBlockToBlockchain has rejected: the catch of the route
\* has answered 500 and nothing follows it
AfterReject(resume) == "done"

\* a commit that writes the block's row straight into a table without constraints,
\* outside any transaction
AddBlockUnconstrained(s, resume) ==
    LET t == tasks[s]
        n == t.node
    IN  /\ t.pc = "add"
        /\ bchain' = [bchain EXCEPT ![n] = Append(@,
                [id |-> Len(@) + 1,
                 blockIndex |-> t.block.index,
                 timestamp |-> t.block.timestamp,
                 transactions |-> LightweightTransactions(t.block.transactions),
                 nonce |-> 0,
                 hash |-> t.block.hash,
                 previousBlockHash |-> ToStr(t.block.previousHash),
                 merkleRoot |-> t.block.merkleRoot])]
        /\ tasks' = [tasks EXCEPT ![s].pc = resume]
        /\ UNCHANGED <<mempool, confirmed, txn>>

\* addBlockToBlockchain(block) of the handler in slot s, one database step at a time:
\* BEGIN and the insert into bchain ("add"), the inserts into confirmed_transactions
\* ("addtx"), COMMIT ("commit") or ROLLBACK ("rollback"). The promise resolves after
\* COMMIT, and the handler goes on at pc resume; it rejects as soon as a step fails.
AddBlockStep(s, resume) ==
    LET t == tasks[s]
        n == t.node
        failed == Respond(tasks, s, 500,
                          IF t.kind = "mine" THEN "Failed to mine block."
                          ELSE "Failed to process received block.")
    IN  IF t.pc = "add"
        THEN LET beginOk == ~txn[n].open
                 insertOk == BchainInsertOk(bchain[n], t.block)
                 ts == IF beginOk /\ insertOk THEN tasks ELSE failed
             IN  /\ txn' = IF beginOk
                           THEN [txn EXCEPT ![n] = BeginTransaction(s, n)]
                           ELSE Ran(s, n)
                 /\ bchain' = IF insertOk
                              THEN [bchain EXCEPT ![n] = Append(@, BchainRow(@, t.block))]
                              ELSE bchain
                 /\ tasks' = [ts EXCEPT ![s].pc = IF insertOk THEN "addtx" ELSE "rollback",
                                        ![s].blockId = IF insertOk THEN Len(bchain[n]) + 1 ELSE 0]
                 /\ UNCHANGED <<mempool, confirmed>>
        ELSE IF t.pc = "addtx"
        THEN LET fails == InsertConfirmedFails(confirmed[n], bchain[n], t.block.transactions, t.blockId)
             IN  /\ confirmed' = [confirmed EXCEPT ![n] =
                        InsertConfirmed(@, bchain[n], t.block.transactions, t.blockId)]
                 /\ tasks' = [(IF fails THEN failed ELSE tasks) EXCEPT
                                 ![s].pc = IF fails THEN "rollback" ELSE "commit"]
                 /\ txn' = Ran(s, n)
                 /\ UNCHANGED <<bchain, mempool>>
        ELSE IF t.pc = "commit"
        THEN /\ txn' = [txn EXCEPT ![n] = NoTxn]
             /\ tasks' = IF ~txn[n].open THEN [failed EXCEPT ![s].pc = "rollback"]
                         ELSE [tasks EXCEPT ![s].pc = IF t.status = 0 THEN resume ELSE "done"]
             /\ UNCHANGED <<bchain, mempool, confirmed>>
        ELSE /\ t.pc = "rollback"
             /\ txn' = [txn EXCEPT ![n] = NoTxn]
             /\ bchain' = IF txn[n].open THEN [bchain EXCEPT ![n] = txn[n].bchain] ELSE bchain
             /\ mempool' = IF txn[n].open THEN [mempool EXCEPT ![n] = txn[n].mempool] ELSE mempool
             /\ confirmed' = IF txn[n].open THEN [confirmed EXCEPT ![n] = txn[n].confirmed] ELSE confirmed
             /\ tasks' = [tasks EXCEPT ![s].pc = AfterReject(resume)]

\* newBlock.transactions.map(tx => tx.transactionId): a transaction without the field
\* gives undefined, which is bound as NULL and matches no row
TransactionIds(transactions) ==
    {transactions[i].transactionId : i \in {j \in 1 .. Len(transactions) : Has(transactions[j], "transactionId")}}

\* a miner that goes on to build a block whatever the mempool gave it
MineWhateverPending(s, n) ==
    /\ Free(s)
    /\ \E pendingTransactions \in getTransactionsForBlock(mempool[n], BLOCK_SIZE) :
          tasks' = [tasks EXCEPT ![s] =
              [NewTask("mine", n) EXCEPT !.pc = "head", !.pending = pendingTransactions]]
    /\ txn' = Ran(s, n)
    /\ UNCHANGED <<bchain, mempool, confirmed, networkNodes, nextUuid, now>>

\* POST /api/blocks/mine on node n, handled in slot s: mineBlockInternal up to what
\* getTransactionsForBlock gives it
Mine(s, n) ==
    /\ Free(s)
    /\ \E pendingTransactions \in getTransactionsForBlock(mempool[n], BLOCK_SIZE) :
          tasks' = [tasks EXCEPT ![s] =
              IF Len(pendingTransactions) = 0
              THEN [NewTask("mine", n) EXCEPT !.pc = "done", !.status = 200,
                                              !.note = "No pending transactions to mine."]
              ELSE [NewTask("mine", n) EXCEPT !.pc = "head", !.pending = pendingTransactions]]
    /\ txn' = Ran(s, n)
    /\ UNCHANGED <<bchain, mempool, confirmed, networkNodes, nextUuid, now>>

\* the block mineBlockInternal builds from what it has read
NewBlock(pendingTransactions, lastBlock, mempoolCount, time) ==
    LET b == [index |-> mempoolCount + 1,
              timestamp |-> IsoTime(time),
              transactions |-> pendingTransactions,
              merkleRoot |-> calculateMerkleRoot(pendingTransactions),
              previousHash |-> lastBlock,
              nonce |-> 0]
    IN  Merge(b, [hash |-> Sha256(BlockString(b))])

\* mineBlockInternal in slot s goes on from one await to the next
MineStep(s) ==
    LET t == tasks[s]
        n == t.node
    IN  /\ t.kind = "mine"
        /\ t.pc \in {"head", "count", "add", "addtx", "commit", "rollback", "evict"}
        /\ InOrder(s, n)
        /\ IF t.pc = "head"
           THEN /\ tasks' = [tasks EXCEPT ![s].pc = "count", ![s].head = getLastBlock(bchain[n])]
                /\ txn' = Ran(s, n)
                /\ UNCHANGED <<bchain, mempool, confirmed>>
           ELSE IF t.pc = "count"
           THEN /\ \E time \in ClockReads :
                      /\ now' = time
                      /\ tasks' = [tasks EXCEPT ![s].pc = "add",
                            ![s].block = NewBlock(t.pending, t.head, getMempoolCount(mempool[n]), time)]
                /\ txn' = Ran(s, n)
                /\ UNCHANGED <<bchain, mempool, confirmed>>
           ELSE IF t.pc = "evict"
           THEN /\ mempool' = [mempool EXCEPT ![n] =
                        removeTransactionsFromMempool(@, TransactionIds(t.pending))]
                /\ tasks' = [tasks EXCEPT ![s] =
                        IF Len(networkNodes[n]) = 0
                        THEN [t EXCEPT !.pc = "done", !.status = 200,
                                       !.note = "Block mined and broadcast successfully."]
                        ELSE [t EXCEPT !.pc = "bcast", !.out = CallsTo(networkNodes[n])]]
                /\ txn' = Ran(s, n)
                /\ UNCHANGED <<bchain, confirmed>>
           ELSE AddBlockStep(s, "evict")
        /\ t.pc # "count" => now' = now
        /\ UNCHANGED <<networkNodes, nextUuid>>

\* one run of the setInterval callback of startServer on node n, recorded in slot s.
\* The timer exists on the regulator only. The callback reads the mempool count; at the
\* threshold it calls blocksRoutes.handleMineRequest, which routes/blocks.js does not
\* export: the call throws a TypeError, which the callback catches and logs.
MineInterval(s, n) ==
    /\ Free(s)
    /\ IsRegAuth(n)
    /\ LET mempoolCount == getMempoolCount(mempool[n])
           t0 == [NewTask("timer", n) EXCEPT !.block = [mempoolCount |-> mempoolCount],
                                            !.pc = "done"]
       IN  tasks' = [tasks EXCEPT ![s] =
               IF mempoolCount >= MINE_THRESHOLD
               THEN [t0 EXCEPT !.note = "Error during mining check:"]
               ELSE t0]
    /\ txn' = Ran(s, n)
    /\ UNCHANGED <<bchain, mempool, confirmed, networkNodes, nextUuid, now>>

\* POST /api/blocks/receive on node n from a client, handled in slot s
ReceiveBlock(s, n, newBlock) ==
    /\ Free(s)
    /\ tasks' = [tasks EXCEPT ![s] = StartReceiveBlock(n, newBlock, 0)]
    /\ UNCHANGED <<bchain, mempool, confirmed, txn, networkNodes, nextUuid, now>>

\* the same checks without the comparison of previousHash
ReceiveBlockCheckNoLinkage(newBlock, lastBlockOnThisChainHash) ==
    IF calculateMerkleRoot(newBlock.transactions) # newBlock.merkleRoot
    THEN "Merkle Root mismatch, block rejected."
    ELSE IF Sha256(BlockString(newBlock)) # newBlock.hash
    THEN "Block hash mismatch, block rejected."
    ELSE ""

\* the checks of router.post('/receive') against the last block read: the note of the
\* 400 response, or "" when the block passes
ReceiveBlockCheck(newBlock, lastBlockOnThisChainHash) ==
    IF ~StrictEq(newBlock.previousHash, lastBlockOnThisChainHash)
    THEN "Received block does not link correctly to our chain (previous hash mismatch)."
    ELSE IF calculateMerkleRoot(newBlock.transactions) # newBlock.merkleRoot
    THEN "Merkle Root mismatch, block rejected."
    ELSE IF Sha256(BlockString(newBlock)) # newBlock.hash
    THEN "Block hash mismatch, block rejected."
    ELSE ""

\* the handler of a received block in slot s goes on to its next await
ReceiveBlockStep(s) ==
    LET t == tasks[s]
        n == t.node
    IN  /\ t.kind = "recvBlock"
        /\ t.pc \in {"head", "add", "addtx", "commit", "rollback", "evict"}
        /\ InOrder(s, n)
        /\ IF t.pc = "head"
           THEN LET lastBlock == getLastBlock(bchain[n])
                    check == ReceiveBlockCheck(t.block, lastBlock)
                IN  /\ tasks' = IF check # ""
                                THEN [Respond(tasks, s, 400, check) EXCEPT ![s].pc = "done", ![s].head = lastBlock]
                                ELSE [tasks EXCEPT ![s].pc = "add", ![s].head = lastBlock]
                    /\ txn' = Ran(s, n)
                    /\ UNCHANGED <<bchain, mempool, confirmed>>
           ELSE IF t.pc = "evict"
           THEN /\ mempool' = [mempool EXCEPT ![n] =
                        removeTransactionsFromMempool(@, TransactionIds(t.block.transactions))]
                /\ tasks' = [Respond(tasks, s, 200, "Block received and accepted.") EXCEPT ![s].pc = "done"]
                /\ txn' = Ran(s, n)
                /\ UNCHANGED <<bchain, confirmed>>
           ELSE AddBlockStep(s, "evict")
        /\ UNCHANGED <<networkNodes, nextUuid, now>>

\* what a client posts to /register-nodes-bulk: a list of two addresses
BulkInputs == {<<a, b>> : a, b \in Nodes}

Next ==
    \/ \E n \in Nodes, u \in Nodes : RegisterNode(n, u)
    \/ \E n \in Nodes, allNodes \in BulkInputs : RegisterNodesBulk(n, allNodes)
    \/ \E s \in Slots, n \in Nodes, u \in Addresses : RegisterAndBroadcastNode(s, n, u)
    \/ \E c \in Slots : DeliverBulk(c)
    \/ \E c \in Slots : FailBulk(c)
    \/ \E s \in Slots, n \in Nodes, raw \in RawInputs, time \in ClockReads :
            SubmitTransaction(s, n, raw, time)
    \/ \E s \in Slots, n \in Nodes, tx \in TxInputs, time \in ClockReads :
            ReceiveTransaction(s, n, tx, time)
    \/ \E c \in Slots, p \in Nodes, time \in ClockReads : DeliverCall(c, p, time)
    \/ \E c \in Slots, p \in Nodes : FailCall(c, p)
    \/ \E s \in Slots, n \in Nodes : Mine(s, n)
    \/ \E s \in Slots : MineStep(s)
    \/ \E s \in Slots, n \in Nodes : \E b \in BlockInputs(n) : ReceiveBlock(s, n, b)
    \/ \E s \in Slots : ReceiveBlockStep(s)
    \/ \E s \in Slots, n \in Nodes : MineInterval(s, n)

Spec == Init /\ [][Next]_vars

\* One node on its own: no peer is registered and no other node is asked anything.
\* Clients submit transactions, ask for a block to be mined and post blocks; this is
\* all that writes to the node's tables besides the insert of a received transaction,
\* which is the insert of a submitted one.
Alone(n) == \A s \in MinerSlots : tasks[s].pc # "idle" => tasks[s].node = n

NextNode ==
    \/ \E s \in Slots, n \in Nodes, raw \in RawInputs, time \in ClockReads :
            Alone(n) /\ SubmitTransaction(s, n, raw, time)
    \/ \E s \in Slots, n \in Nodes : Alone(n) /\ Mine(s, n)
    \/ \E s \in Slots : MineStep(s)
    \/ \E s \in Slots, n \in Nodes : \E b \in BlockInputs(n) : Alone(n) /\ ReceiveBlock(s, n, b)
    \/ \E s \in Slots : ReceiveBlockStep(s)

SpecNode == Init /\ [][NextNode]_vars

\* One node on its own whose clients only submit transactions and ask for blocks to be
\* mined, with room for two submissions and two miners.
NextMiners ==
    \/ \E s \in MinerSlots, n \in Nodes, raw \in RawInputs, time \in ClockReads :
            Alone(n) /\ SubmitTransaction(s, n, raw, time)
    \/ \E s \in MinerSlots, n \in Nodes : Alone(n) /\ Mine(s, n)
    \/ \E s \in MinerSlots : MineStep(s)

SpecMiners == Init /\ [][NextMiners]_vars

\* One node and its peers: the node is told of addresses, clients hand it transactions,
\* and its fan-out calls reach the peers or fail. A call to the address at which nobody
\* listens can only fail.
Origin(n) == Alone(n) /\ \A m \in Nodes \ {n} : networkNodes[m] = <<>>

NextPeers ==
    \/ \E n \in Nodes, u \in Addresses : Origin(n) /\ RegisterNode(n, u)
    \/ \E s \in Slots, n \in Nodes, raw \in RawInputs, time \in ClockReads :
            Origin(n) /\ SubmitTransaction(s, n, raw, time)
    \/ \E s \in Slots, n \in Nodes, tx \in TxInputs, time \in ClockReads :
            Origin(n) /\ ReceiveTransaction(s, n, tx, time)
    \/ \E c \in Slots, p \in Nodes, time \in ClockReads : DeliverCall(c, p, time)
    \/ \E c \in Slots, p \in Addresses : FailCall(c, p)

SpecPeers == Init /\ [][NextPeers]_vars

\* calculateMerkleRoot on its own: two calls, each with a list of transactions; the
\* second list can also be the first with its last transaction once more
TxLists == UNION {[1 .. k -> TxInputs] : k \in 0 .. MaxListLen}

InitMerkle ==
    /\ bchain = [n \in Nodes |-> initDb(n)]
    /\ mempool = [n \in Nodes |-> <<>>]
    /\ confirmed = [n \in Nodes |-> <<>>]
    /\ txn = [n \in Nodes |-> NoTxn]
    /\ networkNodes = [n \in Nodes |-> <<>>]
    /\ nextUuid = 0
    /\ now = 0
    /\ \E l1 \in TxLists :
       \E l2 \in TxLists \cup (IF l1 = <<>> THEN {} ELSE {Append(l1, l1[Len(l1)])}) :
          tasks = [s \in MinerSlots |->
                      IF s = 1 THEN [NewTask("merkle", 0) EXCEPT !.pc = "call", !.pending = l1]
                      ELSE IF s = 2 THEN [NewTask("merkle", 0) EXCEPT !.pc = "call", !.pending = l2]
                      ELSE IdleTask]

\* the call in slot s returns: the list and its root
ComputeRoot(s) ==
    /\ tasks[s].kind = "merkle"
    /\ tasks[s].pc = "call"
    /\ tasks' = [tasks EXCEPT ![s].pc = "done",
                              ![s].block = [transactions |-> tasks[s].pending,
                                            merkleRoot |-> calculateMerkleRoot(tasks[s].pending)]]
    /\ UNCHANGED <<bchain, mempool, confirmed, txn, networkNodes, nextUuid, now>>

NextMerkle == \E s \in Slots : ComputeRoot(s)

SpecMerkle == InitMerkle /\ [][NextMerkle]_vars

\* The registries alone: clients register addresses with one node, and that node's
\* registrations reach the others.
Asked(n) ==
    /\ Alone(n)
    /\ (\A s \in MinerSlots : tasks[s].pc = "idle")
       => \A m \in Nodes \ {n} : networkNodes[m] = <<>>

NextRegistry ==
    \/ \E n \in Nodes, u \in Nodes : Asked(n) /\ RegisterNode(n, u)
    \/ \E n \in Nodes, allNodes \in BulkInputs : Asked(n) /\ RegisterNodesBulk(n, allNodes)
    \/ \E s \in 1 .. MaxRegistrations, n \in Nodes, u \in Nodes :
            Asked(n) /\ RegisterAndBroadcastNode(s, n, u)
    \/ \E c \in Slots, p \in Nodes, time \in ClockReads : DeliverCall(c, p, time)
    \/ \E c \in Slots, p \in Nodes : FailCall(c, p)
    \/ \E c \in Slots : DeliverBulk(c)
    \/ \E c \in Slots : FailBulk(c)

SpecRegistry == Init /\ [][NextRegistry]_vars

\* One node as the receiver of transactions alone: it is told of addresses and peers
\* send it transactions.
NextAdmit ==
    \/ \E n \in Nodes, u \in Addresses : Origin(n) /\ RegisterNode(n, u)
    \/ \E s \in Slots, n \in Nodes, tx \in TxInputs, time \in ClockReads :
            Origin(n) /\ ReceiveTransaction(s, n, tx, time)

SpecAdmit == Init /\ [][NextAdmit]_vars

\* One node as a validator: peers send it transactions and blocks, and nothing else
\* is asked of it.
NextInbound ==
    \/ \E s \in Slots, n \in Nodes, tx \in TxInputs, time \in ClockReads :
            Alone(n) /\ ReceiveTransaction(s, n, tx, time)
    \/ \E s \in Slots, n \in Nodes : \E b \in SentBlocks(n) : Alone(n) /\ ReceiveBlock(s, n, b)
    \/ \E s \in Slots : ReceiveBlockStep(s)

SpecInbound == Init /\ [][NextInbound]_vars

\* removeTransactionsFromMempool on its own: a mempool of rows with different
\* identifiers, and a call with the identifiers of a list of transactions, some of them
\* not in the mempool
EvictRows == {NewTransaction(0, RawComplete, k, 0).row : k \in 1 .. MaxListLen}
EvictRowLists ==
    {l \in UNION {[1 .. k -> EvictRows] : k \in 0 .. MaxListLen} :
        \A i, j \in 1 .. Len(l) : i # j => l[i] # l[j]}
EvictTxs == {RowToTx(NewTransaction(0, RawComplete, k, 0).row) : k \in 1 .. MaxListLen + 1}
EvictTxLists == UNION {[1 .. k -> EvictTxs] : k \in 0 .. MaxTx}

InitEvict ==
    /\ bchain = [n \in Nodes |-> initDb(n)]
    /\ confirmed = [n \in Nodes |-> <<>>]
    /\ txn = [n \in Nodes |-> NoTxn]
    /\ networkNodes = [n \in Nodes |-> <<>>]
    /\ nextUuid = 0
    /\ now = 0
    /\ \E rows \in EvictRowLists, txs \in EvictTxLists :
          /\ mempool = [n \in Nodes |-> IF n = 0 THEN rows ELSE <<>>]
          /\ tasks = [s \in MinerSlots |->
                         IF s = 1 THEN [NewTask("evict", 0) EXCEPT !.pc = "call", !.pending = txs]
                         ELSE IdleTask]

\* the call in slot s runs its DELETE and resolves with this.changes, the number of
\* rows the statement deleted
Evict(s) ==
    LET n == tasks[s].node
        rows == removeTransactionsFromMempool(mempool[n], TransactionIds(tasks[s].pending))
    IN  /\ tasks[s].kind = "evict"
        /\ tasks[s].pc = "call"
        /\ mempool' = [mempool EXCEPT ![n] = rows]
        /\ tasks' = [tasks EXCEPT ![s].pc = "done",
                                  ![s].block = [changes |-> Len(mempool[n]) - Len(rows)]]
        /\ UNCHANGED <<bchain, confirmed, txn, networkNodes, nextUuid, now>>

NextEvict == \E s \in Slots : Evict(s)

SpecEvict == InitEvict /\ [][NextEvict]_vars

\* One node as a miner with peers: it is told of addresses, clients submit transactions
\* to it and ask it to mine, and the calls it makes reach the peers or fail.
NextMinerPeers ==
    \/ \E n \in Nodes, u \in Addresses : Origin(n) /\ RegisterNode(n, u)
    \/ \E s \in Slots, n \in Nodes, raw \in RawInputs, time \in ClockReads :
            Origin(n) /\ SubmitTransaction(s, n, raw, time)
    \/ \E s \in Slots, n \in Nodes : Origin(n) /\ Mine(s, n)
    \/ \E s \in Slots : MineStep(s)
    \/ \E c \in Slots, p \in Nodes, time \in ClockReads : DeliverCall(c, p, time)
    \/ \E c \in Slots, p \in Addresses : FailCall(c, p)

SpecMinerPeers == Init /\ [][NextMinerPeers]_vars

\* addBlockToBlockchain on its own: two calls on the connection of the regulator, each
\* with a block in the shape the function reads (blockIndex, previousBlockHash). The
\* blocks: two that can be stored with their transaction, one whose transaction lacks
\* projId, a NOT NULL column of confirmed_transactions, and one numbered like the
\* genesis block.
ConfirmableTransaction(k) ==
    Merge(PeerTransaction, [transactionId |-> Uuid(k), projId |-> ProjId(0)])

AppendInput(index, transactions) ==
    LET b == BlockOn(index, JsStr(GenesisBlock.hash), transactions)
    IN  [blockIndex |-> b.index,
         timestamp |-> b.timestamp,
         transactions |-> transactions,
         nonce |-> b.nonce,
         hash |-> b.hash,
         previousBlockHash |-> ToStr(b.previousHash),
         merkleRoot |-> b.merkleRoot]

AppendInputs ==
    {AppendInput(1, <<ConfirmableTransaction(1)>>),
     AppendInput(2, <<ConfirmableTransaction(2)>>),
     AppendInput(3, <<PeerTransaction>>),
     AppendInput(0, <<ConfirmableTransaction(3)>>)}

InitAppend ==
    /\ bchain = [n \in Nodes |-> initDb(n)]
    /\ mempool = [n \in Nodes |-> <<>>]
    /\ confirmed = [n \in Nodes |-> <<>>]
    /\ txn = [n \in Nodes |-> NoTxn]
    /\ networkNodes = [n \in Nodes |-> <<>>]
    /\ nextUuid = 0
    /\ now = 0
    /\ \E b1, b2 \in AppendInputs :
          /\ b1 # b2
          /\ tasks = [s \in MinerSlots |->
                         IF s = 1 THEN [NewTask("append", 0) EXCEPT !.pc = "add", !.block = b1]
                         ELSE IF s = 2 THEN [NewTask("append", 0) EXCEPT !.pc = "add", !.block = b2]
                         ELSE IdleTask]

\* the call in slot s runs its next statement
AppendStep(s) ==
    /\ tasks[s].kind = "append"
    /\ tasks[s].pc \in {"add", "addtx", "commit", "rollback"}
    /\ InOrder(s, tasks[s].node)
    /\ AddBlockStep(s, "done")
    /\ UNCHANGED <<networkNodes, nextUuid, now>>

NextAppend == \E s \in Slots : AppendStep(s)

SpecAppend == InitAppend /\ [][NextAppend]_vars

\* The regulator and its timer: clients submit transactions to it and ask it to mine,
\* and the timer's callback runs now and then.
NextTimer ==
    \/ \E s \in Slots, n \in Nodes, raw \in RawInputs, time \in ClockReads :
            IsRegAuth(n) /\ SubmitTransaction(s, n, raw, time)
    \/ \E s \in Slots, n \in Nodes : IsRegAuth(n) /\ Mine(s, n)
    \/ \E s \in Slots : MineStep(s)
    \/ \E s \in Slots, n \in Nodes : MineInterval(s, n)

SpecTimer == Init /\ [][NextTimer]_vars

\* The authority and its peers after they have come apart: clients submit to the
\* regulator and ask it to mine, and the blocks its miners build arrive at the other
\* nodes.
NextDiverged ==
    \/ \E s \in Slots, n \in Nodes, raw \in RawInputs, time \in ClockReads :
            IsRegAuth(n) /\ SubmitTransaction(s, n, raw, time)
    \/ \E s \in Slots, n \in Nodes : IsRegAuth(n) /\ Mine(s, n)
    \/ \E s \in Slots : MineStep(s)
    \/ \E s \in Slots, n \in Nodes : \E b \in BuiltBlocks : ~IsRegAuth(n) /\ ReceiveBlock(s, n, b)
    \/ \E s \in Slots : ReceiveBlockStep(s)

SpecDiverged == Init /\ [][NextDiverged]_vars

\* ------------------------------------------------------------ properties
\* the identifiers of the rows of mempool_transactions
TxIdsIn(rows) == {rows[i].transaction_id : i \in 1 .. Len(rows)}

\* the chain rows hold the block (blocks are told apart by their hash)
BlockStored(rows, block) ==
    /\ Has(block, "hash")
    /\ \E i \in 1 .. Len(rows) : rows[i].hash = block.hash

\* the handler in slot s has a block that it hands to addBlockToBlockchain
Appending(s) ==
    \/ /\ tasks[s].kind = "mine"
       /\ tasks[s].block # NoObj
    \/ /\ tasks[s].kind = "recvBlock"
       /\ \/ tasks[s].pc \in {"add", "addtx", "commit", "rollback", "evict"}
          \/ tasks[s].pc = "done" /\ tasks[s].status # 400

\* the append attempt of slot s is over
FinishedAttempt(s) == Appending(s) /\ tasks[s].pc = "done"

\* the hash of a stored block, recomputed over its index, time, root, link and nonce
RowHash(row) ==
    Sha256(NumStr(row.blockIndex) \o row.timestamp \o row.merkleRoot
           \o row.previousBlockHash \o NumStr(row.nonce))

\* C1: every non-genesis block of a node's chain names the hash of the block before it
\* and carries the hash recomputed over its own fields, and so does every block that
\* mineBlockInternal or the receive route hands to the chain on top of a head.
C1_HashChain ==
    /\ \A n \in Nodes : \A i \in 2 .. Len(bchain[n]) :
          /\ bchain[n][i].previousBlockHash = bchain[n][i - 1].hash
          /\ bchain[n][i].hash = RowHash(bchain[n][i])
    /\ \A s \in Slots :
          (Appending(s) /\ tasks[s].head.kind = "obj") =>
              /\ tasks[s].block.previousHash = JsStr(tasks[s].head.row.hash)
              /\ tasks[s].block.hash = Sha256(BlockString(tasks[s].block))

\* C2: the indexes of a node's chain are 0, 1, 2, ... without gap or repeat, and every
\* block the miner builds has the index after its head's and names its head's hash.
C2_DenseIndex ==
    /\ \A n \in Nodes : \A i \in 1 .. Len(bchain[n]) : bchain[n][i].blockIndex = i - 1
    /\ \A s \in Slots :
          (tasks[s].kind = "mine" /\ tasks[s].block # NoObj /\ tasks[s].head.kind = "obj") =>
              /\ tasks[s].block.index = tasks[s].head.row.blockIndex + 1
              /\ tasks[s].block.previousHash = JsStr(tasks[s].head.row.hash)

\* C3: of two finished append attempts of one node that were built or validated against
\* the same head, exactly one has succeeded and has its block in the chain.
C3_Won(s) ==
    /\ tasks[s].status = 200
    /\ BlockStored(bchain[tasks[s].node], tasks[s].block)

C3_OneAppendPerHead ==
    \A s1, s2 \in Slots :
        (/\ s1 # s2
         /\ FinishedAttempt(s1)
         /\ FinishedAttempt(s2)
         /\ tasks[s1].node = tasks[s2].node
         /\ tasks[s1].head = tasks[s2].head)
        => (C3_Won(s1) # C3_Won(s2))

\* C4: the commit of a block is all or nothing. A step of a handler takes transactions
\* of its own block out of the node's mempool only when the block is in the chain, and
\* when the handler's commit is over with the block in the chain, none of the block's
\* transactions is left in the mempool.
C4_Step(s) ==
    LET n == tasks[s].node
        ids == TransactionIds(tasks[s].block.transactions)
    IN  /\ (\E id \in ids : id \in TxIdsIn(mempool[n]) /\ id \notin TxIdsIn(mempool'[n]))
               => BlockStored(bchain'[n], tasks[s].block)
        /\ (tasks'[s].pc \in {"done", "bcast"} /\ BlockStored(bchain'[n], tasks[s].block))
               => ids \cap TxIdsIn(mempool'[n]) = {}

C5_SameId(s1, s2) ==
    /\ tasks[s1].kind = "recvTx" /\ tasks[s1].pc = "done"
    /\ tasks[s2].kind = "recvTx" /\ tasks[s2].pc = "done"
    /\ tasks[s1].node = tasks[s2].node
    /\ Has(tasks[s1].tx, "transactionId") /\ Has(tasks[s2].tx, "transactionId")
    /\ tasks[s1].tx.transactionId = tasks[s2].tx.transactionId

C5_Entries(s) ==
    {i \in 1 .. Len(mempool[tasks[s].node]) :
        mempool[tasks[s].node][i].transaction_id = tasks[s].tx.transactionId}

C5_IdempotentAdmission ==
    \A s1, s2 \in Slots :
        (s1 < s2 /\ C5_SameId(s1, s2) /\ tasks[s1].status = 201)
        => (tasks[s2].status = 409 /\ Cardinality(C5_Entries(s1)) = 1)

\* C6: of two admissions of one identifier on one node that both passed validation,
\* in whatever order their inserts ran, one is accepted and one refused as a duplicate,
\* and the mempool ends with one entry for the identifier.
C6_OneOfTwoAdmitted ==
    \A s1, s2 \in Slots :
        (s1 # s2 /\ C5_SameId(s1, s2) /\ tasks[s1].status # 400 /\ tasks[s2].status # 400)
        => (/\ {tasks[s1].status, tasks[s2].status} = {201, 409}
            /\ Cardinality(C5_Entries(s1)) = 1)

C9_NamesHead(v, head) ==
    /\ head.kind = "obj"
    /\ v = JsStr(head.row.hash) \/ v = head

\* C9: a node that receives, unmodified, a block a miner has built, and whose head the
\* block's previousHash names, accepts it: the block is in its chain and none of the
\* block's transactions is in its mempool.
C9_PeerAcceptsMinedBlock ==
    \A s \in Slots :
        (/\ tasks[s].kind = "recvBlock"
         /\ tasks[s].pc = "done"
         /\ tasks[s].block \in BuiltBlocks
         /\ C9_NamesHead(tasks[s].block.previousHash, tasks[s].head))
        => (/\ tasks[s].status = 200
            /\ BlockStored(bchain[tasks[s].node], tasks[s].block)
            /\ TransactionIds(tasks[s].block.transactions)
                   \cap TxIdsIn(mempool[tasks[s].node]) = {})

\* previousHash is not the hash of the head (a node without a head has no such hash)
C10_Differs(block, head) ==
    ~(head.kind = "obj" /\ block.previousHash = JsStr(head.row.hash))

C10_Note == "Received block does not link correctly to our chain (previous hash mismatch)."

\* C10: the receive route, comparing a block that has its fields with a head whose hash
\* previousHash is not, answers 400 with the linkage note and ends, and its step leaves
\* the chain, the confirmed transactions and the mempool as they were.
C10_LinkageMismatch ==
    [][\A s \in Slots :
          (/\ tasks[s].kind = "recvBlock"
           /\ tasks[s].pc = "head"
           /\ tasks'[s].pc # "head"
           /\ C10_Differs(tasks[s].block, getLastBlock(bchain[tasks[s].node])))
          => (/\ tasks'[s].pc = "done"
              /\ tasks'[s].status = 400
              /\ tasks'[s].note = C10_Note
              /\ bchain' = bchain
              /\ confirmed' = confirmed
              /\ mempool' = mempool)]_vars

\* a block with another previousHash than the head's hash has been refused
C10_Witness ==
    \E s \in Slots :
        /\ tasks[s].kind = "recvBlock"
        /\ tasks[s].pc = "done"
        /\ ~ReceiveBlockMalformed(tasks[s].block)
        /\ tasks[s].head.kind = "obj"
        /\ tasks[s].block.previousHash.kind = "str"
        /\ C10_Differs(tasks[s].block, tasks[s].head)
        /\ tasks[s].status = 400
        /\ tasks[s].note = C10_Note
        /\ bchain[tasks[s].node] = initDb(tasks[s].node)

\* the finished receive in slot s was of a block that has its fields and whose
\* previousHash is the hash of the head the handler read
C11_LinksToHead(s) ==
    /\ tasks[s].kind = "recvBlock"
    /\ tasks[s].pc = "done"
    /\ ~ReceiveBlockMalformed(tasks[s].block)
    /\ tasks[s].head.kind = "obj"
    /\ tasks[s].block.previousHash = JsStr(tasks[s].head.row.hash)

\* C11: a received block that links to the head and whose Merkle root, recomputed over
\* its transactions, is not its merkleRoot, is answered with the Merkle mismatch and is
\* not in the chain.
C11_MerkleMismatch ==
    \A s \in Slots :
        (/\ C11_LinksToHead(s)
         /\ calculateMerkleRoot(tasks[s].block.transactions) # tasks[s].block.merkleRoot)
        => (/\ tasks[s].status = 400
            /\ tasks[s].note = "Merkle Root mismatch, block rejected."
            /\ ~BlockStored(bchain[tasks[s].node], tasks[s].block))

\* C12: a received block that links to the head, whose Merkle root is right and whose
\* hash is not the hash recomputed over its index, timestamp, merkleRoot, previousHash
\* and nonce, is answered with the hash mismatch, and nothing of it is kept: no row of
\* the chain and no confirmed transaction.
C12_HashMismatch ==
    \A s \in Slots :
        (/\ C11_LinksToHead(s)
         /\ calculateMerkleRoot(tasks[s].block.transactions) = tasks[s].block.merkleRoot
         /\ Sha256(BlockString(tasks[s].block)) # tasks[s].block.hash)
        => (/\ tasks[s].status = 400
            /\ tasks[s].note = "Block hash mismatch, block rejected."
            /\ ~BlockStored(bchain[tasks[s].node], tasks[s].block)
            /\ \A i \in 1 .. Len(confirmed[tasks[s].node]) :
                   confirmed[tasks[s].node][i].transaction_id
                       \notin TransactionIds(tasks[s].block.transactions))

\* the fields the two receive routes cannot do without
C13_TxHasFields(tx) == \A f \in {"transactionId", "timestamp", "rowHash"} : Has(tx, f)
C13_BlockHasFields(b) ==
    \A f \in {"index", "timestamp", "transactions", "merkleRoot", "previousHash", "hash"} : Has(b, f)

C13_BlockNote == "Received block is missing required fields."

\* C13: a received transaction or block that lacks a required field is answered 400 as
\* malformed in the step in which it arrives, which leaves the mempool and the chain as
\* they were; and a received block that has every required field, whatever their values
\* (an index or a nonce of 0 too), is not answered as malformed.
C13_MalformedExactly ==
    [][\A s \in Slots :
          (tasks[s].pc = "idle" /\ tasks'[s].pc # "idle")
          => /\ (tasks'[s].kind = "recvTx" /\ ~C13_TxHasFields(tasks'[s].tx))
                => (/\ tasks'[s].pc = "done"
                    /\ tasks'[s].status = 400
                    /\ tasks'[s].note = "Missing mandatory transaction fields for reception."
                    /\ mempool' = mempool
                    /\ bchain' = bchain)
             /\ (tasks'[s].kind = "recvBlock" /\ ~C13_BlockHasFields(tasks'[s].block))
                => (/\ tasks'[s].pc = "done"
                    /\ tasks'[s].status = 400
                    /\ tasks'[s].note = C13_BlockNote
                    /\ mempool' = mempool
                    /\ bchain' = bchain)
             /\ (tasks'[s].kind = "recvBlock" /\ C13_BlockHasFields(tasks'[s].block))
                => tasks'[s].note # C13_BlockNote]_vars

\* the digest the receive route recomputes over identifier, timestamp and payload
C14_Digest(tx) == Sha256(tx.transactionId \o tx.timestamp \o StrOrUndefined(tx, "rawDataJson"))

C14_Note == "Transaction hash mismatch. Data may be corrupted."

\* C14: a received transaction that has its fields and whose rowHash is not the digest
\* recomputed over its transactionId, timestamp and rawDataJson is answered 400 with
\* the hash mismatch in the step in which it arrives, and no mempool gets a row.
C14_IntegrityMismatch ==
    [][\A s \in Slots :
          (/\ tasks[s].pc = "idle"
           /\ tasks'[s].kind = "recvTx"
           /\ C13_TxHasFields(tasks'[s].tx)
           /\ C14_Digest(tasks'[s].tx) # tasks'[s].tx.rowHash)
          => (/\ tasks'[s].pc = "done"
              /\ tasks'[s].status = 400
              /\ tasks'[s].note = C14_Note
              /\ mempool' = mempool)]_vars

\* a transaction changed after its digest was taken has been refused, and the mempool
\* of the node is empty
C14_Witness ==
    \E s \in Slots :
        /\ tasks[s].kind = "recvTx"
        /\ tasks[s].pc = "done"
        /\ C13_TxHasFields(tasks[s].tx)
        /\ C14_Digest(tasks[s].tx) # tasks[s].tx.rowHash
        /\ tasks[s].status = 400
        /\ tasks[s].note = C14_Note
        /\ mempool[tasks[s].node] = <<>>

\* C15: the transaction a submit hands to its fan-out passes the checks of the peer's
\* receive route as it is, and a call the peer has answered with success has left a
\* row in the peer's mempool.
C15_FanoutAdmitted ==
    \A c \in Slots, p \in Nodes :
        (tasks[c].kind = "submit" /\ tasks[c].out[p] # "none")
        => (/\ ReceiveTransactionCheck(tasks[c].tx) = ""
            /\ tasks[c].out[p] = "ok" => mempool[p] # <<>>)

\* C16: a transaction a node has accepted from a peer is in that node's mempool under
\* the transactionId, the timestamp and the rowHash it arrived with.
C16_KeepsIdentity ==
    \A s \in Slots :
        (tasks[s].kind = "recvTx" /\ tasks[s].pc = "done" /\ tasks[s].status = 201)
        => \E i \in 1 .. Len(mempool[tasks[s].node]) :
               /\ mempool[tasks[s].node][i].transaction_id = tasks[s].tx.transactionId
               /\ mempool[tasks[s].node][i].timestamp = tasks[s].tx.timestamp
               /\ mempool[tasks[s].node][i].rowHash = tasks[s].tx.rowHash

\* the identifiers of the transactions of the blocks in the chain rows
C17_CommittedIds(rows) ==
    UNION {TransactionIds(rows[i].transactions) : i \in 1 .. Len(rows)}

\* C17: a step that takes an entry out of a node's mempool leaves the node's chain with
\* a block that holds the entry's transaction, and a handler that ends with the answer
\* that its block was appended leaves none of the block's transactions in the mempool.
C17_RemovedExactlyByCommit ==
    [][/\ \A n \in Nodes :
             TxIdsIn(mempool[n]) \ TxIdsIn(mempool'[n]) \subseteq C17_CommittedIds(bchain'[n])
       /\ \A s \in Slots :
             (/\ tasks[s].kind \in {"mine", "recvBlock"}
              /\ tasks[s].pc # "done"
              /\ tasks'[s].pc = "done"
              /\ tasks'[s].status = 200
              /\ tasks[s].block # NoObj)
             => TransactionIds(tasks[s].block.transactions)
                    \cap TxIdsIn(mempool'[tasks[s].node]) = {}]_vars

\* C19: a submit that has stored its transaction ends with 201 whatever became of its
\* fan-out calls, and a mine whose block is in the chain ends with 200 likewise.
C19_FanoutFailureNotSeen ==
    \A s \in Slots :
        /\ (tasks[s].kind = "submit" /\ tasks[s].pc = "done" /\ tasks[s].tx # NoObj)
           => tasks[s].status = 201
        /\ (/\ tasks[s].kind = "mine"
            /\ tasks[s].pc = "done"
            /\ tasks[s].block # NoObj
            /\ BlockStored(bchain[tasks[s].node], tasks[s].block))
           => tasks[s].status = 200

\* the addresses in a list of peers
C20_Listed(peers) == {peers[i] : i \in 1 .. Len(peers)}

\* C20: a fan-out starts with one call to each address in the list of peers as it is
\* then and to no other; a call that is under way stays so until it has succeeded or
\* failed, whatever becomes of the others, and a call that is over is not made again;
\* and the handler answers its caller only when no call of its fan-out is under way.
C20_OneCallEachAllSettled ==
    [][\A c \in Slots :
          /\ (tasks[c].pc = "idle" /\ tasks'[c].kind = "submit" /\ tasks'[c].tx # NoObj)
             => \A p \in Addresses :
                    tasks'[c].out[p] =
                        IF p \in C20_Listed(networkNodes[tasks'[c].node]) THEN "pending" ELSE "none"
          /\ \A p \in Addresses :
                /\ tasks[c].out[p] \in {"ok", "fail"} => tasks'[c].out[p] = tasks[c].out[p]
                /\ tasks[c].out[p] \in {"pending", "sent"}
                   => tasks'[c].out[p] \in {"pending", "sent", "ok", "fail"}
          /\ (tasks'[c].kind \in {"submit", "mine"} /\ tasks'[c].pc = "done")
             => \A p \in Addresses : tasks'[c].out[p] \notin {"pending", "sent"}]_vars

\* C21: the handler of a received transaction has no call to any address, and a call
\* comes into being only when a submit starts its fan-out or a miner starts its own:
\* neither the receipt of a transaction nor the delivery of a call makes a new call.
C21_NoFanoutOnReceive ==
    [][\A c \in Slots :
          /\ tasks'[c].kind = "recvTx" => \A p \in Addresses : tasks'[c].out[p] = "none"
          /\ \A p \in Addresses :
                (tasks'[c].out[p] = "pending" /\ tasks[c].out[p] # "pending")
                => \/ tasks[c].pc = "idle" /\ tasks'[c].kind = "submit"
                   \/ tasks[c].kind = "mine" /\ tasks[c].pc = "evict"]_vars

\* a node that knows a peer has accepted a received transaction and called nobody
C21_Witness ==
    \E s \in Slots :
        /\ tasks[s].kind = "recvTx"
        /\ tasks[s].pc = "done"
        /\ tasks[s].status = 201
        /\ networkNodes[tasks[s].node] # <<>>
        /\ \A c \in Slots, p \in Addresses : tasks[c].out[p] = "none"

\* C22: a handler that assembles a block runs on the regulator, and the chain of every
\* other node holds only blocks that a receive of that node has answered as accepted.
C22_OnlyAuthorityAssembles ==
    /\ \A s \in Slots :
          (tasks[s].kind = "mine" /\ tasks[s].block # NoObj) => IsRegAuth(tasks[s].node)
    /\ \A n \in Nodes : \A i \in 1 .. Len(bchain[n]) :
          (~IsRegAuth(n) /\ ~txn[n].open)
          => \E s \in Slots :
                 /\ tasks[s].kind = "recvBlock"
                 /\ tasks[s].node = n
                 /\ Has(tasks[s].block, "hash")
                 /\ tasks[s].block.hash = bchain[n][i].hash

C23_Note == "No pending transactions to mine."

\* C23: a request to mine that finds the node's mempool empty is answered in that step
\* with the note that there is nothing to mine, builds no block and calls no peer, and
\* the step leaves chain, mempool and confirmed transactions as they were.
C23_NothingToMine ==
    [][\A s \in Slots :
          (/\ tasks[s].pc = "idle"
           /\ tasks'[s].kind = "mine"
           /\ mempool[tasks'[s].node] = <<>>)
          => (/\ tasks'[s].pc = "done"
              /\ tasks'[s].status = 200
              /\ tasks'[s].note = C23_Note
              /\ tasks'[s].block = NoObj
              /\ \A p \in Addresses : tasks'[s].out[p] = "none"
              /\ bchain' = bchain
              /\ mempool' = mempool
              /\ confirmed' = confirmed)]_vars

\* a miner has found nothing to mine
C23_Witness ==
    \E s \in Slots :
        /\ tasks[s].kind = "mine"
        /\ tasks[s].pc = "done"
        /\ tasks[s].status = 200
        /\ tasks[s].note = C23_Note
        /\ tasks[s].pending = <<>>
        /\ mempool[tasks[s].node] = <<>>

\* the identifiers of the confirmed transactions in rows
C24_ConfirmedIds(rows) == {rows[i].transaction_id : i \in 1 .. Len(rows)}

\* C24: a miner whose block did not get into the chain has answered 500, and every
\* transaction it had drained is in the node's mempool and none is among the confirmed.
C24_FailedAppendLosesNothing ==
    \A s \in MinerSlots :
        (/\ tasks[s].kind = "mine"
         /\ tasks[s].pc = "done"
         /\ tasks[s].block # NoObj
         /\ ~BlockStored(bchain[tasks[s].node], tasks[s].block))
        => (/\ tasks[s].status = 500
            /\ tasks[s].note = "Failed to mine block."
            /\ TransactionIds(tasks[s].pending) \subseteq TxIdsIn(mempool[tasks[s].node])
            /\ TransactionIds(tasks[s].pending)
                   \cap C24_ConfirmedIds(confirmed[tasks[s].node]) = {})

\* the list of peers has no address twice and not the address self
C25_ProperList(peers, self) ==
    /\ \A i, j \in 1 .. Len(peers) : peers[i] = peers[j] => i = j
    /\ \A i \in 1 .. Len(peers) : peers[i] # self

\* C25: after every step the list of peers of every node has no address twice and not
\* the node's own, and a registration route that starts with an address its node
\* already knows, or with the node's own, leaves the node's list as it was.
C25_RegistryIsSet ==
    [][/\ \A n \in Nodes : C25_ProperList(networkNodes'[n], n)
       /\ \A s \in Slots :
             (/\ tasks[s].pc = "idle"
              /\ tasks'[s].kind = "register"
              /\ \/ tasks'[s].url \in C20_Listed(networkNodes[tasks'[s].node])
                 \/ tasks'[s].url = tasks'[s].node)
             => networkNodes' = networkNodes]_vars

\* one node has been asked twice to register the same address, with other registrations
\* having reached it, and it knows another address too
C25_Witness ==
    \E s1, s2 \in Slots :
        /\ s1 # s2
        /\ tasks[s1].kind = "register"
        /\ tasks[s2].kind = "register"
        /\ tasks[s1].node = tasks[s2].node
        /\ tasks[s1].url = tasks[s2].url
        /\ tasks[s1].url # tasks[s1].node
        /\ Len(networkNodes[tasks[s1].node]) = 2
        /\ C25_ProperList(networkNodes[tasks[s1].node], tasks[s1].node)

\* the registration in slot c answers its client with success in this step
C26_Completes(c) ==
    /\ tasks[c].kind = "register"
    /\ tasks[c].pc = "bulk"
    /\ tasks'[c].pc = "done"
    /\ tasks'[c].status = 200

\* the peers the registration in slot c has called, the new node apart
C26_PeersBefore(c) == {p \in Nodes : tasks[c].out[p] = "ok"} \ {tasks[c].url}

\* C26: when a registration of a new node J with a node K answers with success, K's
\* list has J, the list of every peer K called has J, and J's list is K's list
\* together with K and without J.
C26_FullViewAfterJoin ==
    [][\A c \in Slots :
          (C26_Completes(c) /\ tasks[c].url # tasks[c].node)
          => LET K == tasks[c].node
                 J == tasks[c].url
             IN  /\ J \in C20_Listed(networkNodes'[K])
                 /\ \A p \in C26_PeersBefore(c) : J \in C20_Listed(networkNodes'[p])
                 /\ C20_Listed(networkNodes'[J])
                        = (C20_Listed(networkNodes'[K]) \cup {K}) \ {J}]_vars

\* C26 as it holds: when a registration of a new node J with a node K answers with
\* success, K's list has J, the list of every peer K called has J, and J's list has K
\* and every address, J apart, that K's list had when K sent it, the called peers
\* among them.
C26_JoinerLearnsSentList ==
    [][\A c \in Slots :
          (C26_Completes(c) /\ tasks[c].url # tasks[c].node)
          => LET K == tasks[c].node
                 J == tasks[c].url
             IN  /\ J \in C20_Listed(networkNodes'[K])
                 /\ \A p \in C26_PeersBefore(c) : J \in C20_Listed(networkNodes'[p])
                 /\ C26_PeersBefore(c) \cup {K} \subseteq C20_Listed(tasks[c].list)
                 /\ C20_Listed(tasks[c].list) \subseteq C20_Listed(networkNodes'[K]) \cup {K}
                 /\ C20_Listed(tasks[c].list) \ {J} \subseteq C20_Listed(networkNodes'[J])]_vars

\* a node that knew a peer has registered a new node with success: the peer knows the
\* new node, and the new node knows the peer and the node
C26_Witness ==
    \E c \in Slots :
        /\ tasks[c].kind = "register"
        /\ tasks[c].pc = "done"
        /\ tasks[c].status = 200
        /\ tasks[c].url # tasks[c].node
        /\ C26_PeersBefore(c) # {}
        /\ \A p \in C26_PeersBefore(c) : tasks[c].url \in C20_Listed(networkNodes[p])
        /\ C26_PeersBefore(c) \cup {tasks[c].node} \subseteq C20_Listed(networkNodes[tasks[c].url])

\* the call in slot s has returned
C28_Returned(s) == tasks[s].kind = "merkle" /\ tasks[s].pc = "done"

\* C28: two calls of calculateMerkleRoot with the same list return the same root; with
\* a list of two different transactions and the same two the other way round they
\* return different roots; and a call with the empty list returns the sentinel "0".
C28_DeterministicOrdered ==
    \A s1, s2 \in Slots :
        (C28_Returned(s1) /\ C28_Returned(s2))
        => LET l1 == tasks[s1].pending
               l2 == tasks[s2].pending
           IN  /\ l1 = l2 => tasks[s1].block.merkleRoot = tasks[s2].block.merkleRoot
               /\ (Len(l1) = 2 /\ l1[1] # l1[2] /\ l2 = <<l1[2], l1[1]>>)
                  => tasks[s1].block.merkleRoot # tasks[s2].block.merkleRoot
               /\ l1 = <<>> => tasks[s1].block.merkleRoot = <<"0">>

\* two different transactions have been given in both orders, and the empty list too
C28_Witness ==
    /\ C28_Returned(1)
    /\ C28_Returned(2)
    /\ Len(tasks[1].pending) = 2
    /\ tasks[1].pending[1] # tasks[1].pending[2]
    /\ tasks[2].pending = <<tasks[1].pending[2], tasks[1].pending[1]>>
    /\ tasks[1].block.merkleRoot # tasks[2].block.merkleRoot
    /\ calculateMerkleRoot(<<>>) = <<"0">>

\* list l2 is list l1 with the transaction at one place changed in its data and in
\* nothing that identifies it
C29_OneChanged(l1, l2) ==
    /\ Len(l1) = Len(l2)
    /\ \E i \in 1 .. Len(l1) :
          /\ l1[i] # l2[i]
          /\ l1[i].transactionId = l2[i].transactionId
          /\ l1[i].timestamp = l2[i].timestamp
          /\ \A j \in 1 .. Len(l1) : j # i => l1[j] = l2[j]

\* C29: the root recomputed over the transactions of a block of which one has had its
\* data changed is not the merkleRoot the block got over the transactions as they were.
C29_TamperDetected ==
    \A s1, s2 \in Slots :
        (/\ C28_Returned(s1)
         /\ tasks[s2].kind = "merkle"
         /\ C29_OneChanged(tasks[s1].block.transactions, tasks[s2].pending))
        => calculateMerkleRoot(tasks[s2].pending) # tasks[s1].block.merkleRoot

\* a block of three transactions and the same three with the data of one changed
C29_Witness ==
    /\ C28_Returned(1)
    /\ C28_Returned(2)
    /\ Len(tasks[1].pending) = 3
    /\ C29_OneChanged(tasks[1].block.transactions, tasks[2].pending)
    /\ tasks[2].block.merkleRoot # tasks[1].block.merkleRoot

\* C30: the chain of every node has a first block, numbered 0 and with "0" for the hash
\* before it, the same on every node, and the head a node reads is a block.
C30_GenesisEverywhere ==
    \A n \in Nodes :
        /\ Len(bchain[n]) >= 1
        /\ bchain[n][1].blockIndex = 0
        /\ bchain[n][1].previousBlockHash = <<"0">>
        /\ \A m \in Nodes : Len(bchain[m]) >= 1 /\ bchain[m][1].hash = bchain[n][1].hash
        /\ getLastBlock(bchain[n]).kind = "obj"

\* C31: the chain of a node is append-only: whatever step the network takes, every block
\* that was in a node's chain is still there afterwards, at the same place and unchanged,
\* so the chain never gets shorter.
C31_AppendOnly ==
    [][\A n \in Nodes :
          /\ Len(bchain'[n]) >= Len(bchain[n])
          /\ \A i \in 1 .. Len(bchain[n]) : bchain'[n][i] = bchain[n][i]]_vars

\* a node with a block in its chain has seen a miner's append fail and be rolled back and
\* has answered a posted block, and the block is still its chain
C31_Witness ==
    \E n \in Nodes : \E s1, s2 \in Slots :
        /\ Len(bchain[n]) >= 1
        /\ tasks[s1].kind = "mine" /\ tasks[s1].node = n
        /\ tasks[s1].block # NoObj /\ tasks[s1].pc = "done"
        /\ tasks[s2].kind = "recvBlock" /\ tasks[s2].node = n /\ tasks[s2].pc = "done"
        /\ tasks[s2].head # JsNull
        /\ bchain[n] = initDb(n)

\* the block of the handler in slot s was built by a miner of the regulator
C32_FromAuthority(s) ==
    \E m \in Slots : /\ tasks[m].kind = "mine"
                     /\ IsRegAuth(tasks[m].node)
                     /\ tasks[m].block = tasks[s].block

\* the head of node n is not the head of the regulator's chain
C32_Diverged(n) ==
    \E a \in Nodes : IsRegAuth(a) /\ getLastBlock(bchain[n]) # getLastBlock(bchain[a])

\* C32: a peer whose head differs from the regulator's answers every block of the
\* regulator with the linkage mismatch, its chain stays as it was and its head keeps
\* differing: nothing brings it back in step.
C32_NoReconciliation ==
    \A n \in Nodes : ~IsRegAuth(n) =>
        /\ C32_Diverged(n)
        /\ bchain[n] = initDb(n)
        /\ \A s \in Slots :
              (tasks[s].kind = "recvBlock" /\ tasks[s].node = n /\ C32_FromAuthority(s))
              => \/ tasks[s].pc = "head"
                 \/ /\ tasks[s].pc = "done"
                    /\ tasks[s].status = 400
                    /\ tasks[s].note = C10_Note

\* a peer has answered a block that a miner of the regulator built
C32_Witness ==
    \E s \in Slots :
        /\ tasks[s].kind = "recvBlock"
        /\ ~IsRegAuth(tasks[s].node)
        /\ C32_FromAuthority(s)
        /\ tasks[s].pc = "done"
        /\ C32_Diverged(tasks[s].node)

\* the transactions txs are the first ones of rows, in the order of the rows
C33_FirstOf(rows, txs) ==
    /\ Len(txs) <= Len(rows)
    /\ \A i \in 1 .. Len(txs) : txs[i].transactionId = rows[i].transaction_id

\* C33: getTransactionsForBlock(limit) returns the first limit transactions of the
\* mempool (all of them when there are fewer) in the order they were inserted, and the
\* request that calls it leaves the mempool as it was; the block a miner builds lists
\* the transactions in the order it read them.
C33_DrainFifoNoRemoval ==
    [][/\ \A n \in Nodes : \A limit \in 0 .. MaxTx :
             \A txs \in getTransactionsForBlock(mempool'[n], limit) :
                 /\ Len(txs) = Min(limit, Len(mempool'[n]))
                 /\ C33_FirstOf(mempool'[n], txs)
       /\ \A s \in MinerSlots :
             /\ (tasks[s].kind = "idle" /\ tasks'[s].kind = "mine")
                => /\ mempool' = mempool
                   /\ tasks'[s].pending \in
                          getTransactionsForBlock(mempool[tasks'[s].node], BLOCK_SIZE)
                   /\ C33_FirstOf(mempool[tasks'[s].node], tasks'[s].pending)
             /\ (tasks'[s].kind = "mine" /\ tasks'[s].block # NoObj)
                => tasks'[s].block.transactions = tasks'[s].pending]_vars

\* a miner has read two transactions of the same timestamp and built its block, and the
\* two are still in the mempool
C33_Witness ==
    \E s \in MinerSlots :
        /\ tasks[s].kind = "mine"
        /\ Len(tasks[s].pending) = 2
        /\ tasks[s].pending[1].timestamp = tasks[s].pending[2].timestamp
        /\ tasks[s].block # NoObj
        /\ Len(mempool[tasks[s].node]) = 2

\* the places of rows whose identifier is one of ids
C34_Hits(rows, ids) == {i \in 1 .. Len(rows) : rows[i].transaction_id \in ids}

\* C34: removeTransactionsFromMempool(ids) deletes the rows whose identifier is in ids
\* and no other, keeps the remaining rows as they were and in their order, does nothing
\* for an identifier that is not in the mempool, and resolves with the number of rows
\* it deleted; a row that is not among the transactions a miner read stays.
C34_EvictExactly ==
    [][\A s \in Slots :
          (tasks[s].kind = "evict" /\ tasks[s].pc = "call" /\ tasks'[s].pc = "done")
          => LET n == tasks[s].node
                 ids == TransactionIds(tasks[s].pending)
                 hits == C34_Hits(mempool[n], ids)
             IN  /\ mempool'[n] = SelectSeq(mempool[n], LAMBDA r : r.transaction_id \notin ids)
                 /\ tasks'[s].block.changes = Cardinality(hits)
                 /\ hits = {} => mempool' = mempool
                 /\ \A m \in Nodes \ {n} : mempool'[m] = mempool[m]]_vars

\* a call has deleted one row and kept another, and one of its identifiers was of no row
C34_Witness ==
    \E s \in Slots :
        /\ tasks[s].kind = "evict"
        /\ tasks[s].pc = "done"
        /\ tasks[s].block.changes = 1
        /\ Len(tasks[s].pending) = 2
        /\ Len(mempool[tasks[s].node]) >= 1
        /\ \A r \in {mempool[tasks[s].node][i] : i \in 1 .. Len(mempool[tasks[s].node])} :
              r.transaction_id \notin TransactionIds(tasks[s].pending)

\* C35: a run of the regulator's timer that finds the mempool at the threshold starts
\* the assembly of a block: it reads the pending transactions as a miner does.
C35_ThresholdStartsMining ==
    \A s \in Slots :
        (/\ tasks[s].block # NoObj
         /\ Has(tasks[s].block, "mempoolCount")
         /\ tasks[s].block.mempoolCount >= MINE_THRESHOLD)
        => /\ tasks[s].kind = "mine"
           /\ Len(tasks[s].pending) > 0

\* the handler in slot s has a call to a peer under way
C36_Calls(t) == \E p \in Addresses : t.out[p] # "none"

\* C36: the submit route inserts into its own mempool before it calls any peer: when
\* its calls start and whenever one of them reaches a peer, the transaction they carry
\* is a row of the origin's mempool, and a submission whose insert fails calls no peer.
C36_AdmitsBeforeFanout ==
    [][\A s \in Slots :
          /\ (tasks'[s].kind = "submit" /\ ~C36_Calls(tasks[s]) /\ C36_Calls(tasks'[s]))
             => /\ tasks'[s].tx # NoObj
                /\ tasks'[s].tx.transactionId \in TxIdsIn(mempool'[tasks'[s].node])
                /\ tasks'[s].tx.transactionId \notin TxIdsIn(mempool[tasks'[s].node])
          /\ (tasks[s].kind = "submit" /\ tasks'[s].out # tasks[s].out)
             => tasks[s].tx.transactionId \in TxIdsIn(mempool[tasks[s].node])
          /\ (tasks'[s].kind = "submit" /\ tasks'[s].tx = NoObj)
             => ~C36_Calls(tasks'[s])]_vars

\* a node that knows a peer has refused one submission without calling anyone and has
\* called the peer for another
C36_Witness ==
    \E s1, s2 \in Slots :
        /\ tasks[s1].kind = "submit" /\ tasks[s1].tx = NoObj /\ tasks[s1].status = 500
        /\ tasks[s2].kind = "submit" /\ tasks[s2].node = tasks[s1].node
        /\ s2 < s1
        /\ \E p \in Nodes : tasks[s2].out[p] = "fail"

\* C37: a miner calls its peers with a block only once the block is a row of its own
\* chain: a miner with a call under way or ended has its block stored, and a miner
\* whose append failed has called no peer.
C37_FanoutAfterAppend ==
    \A s \in Slots :
        tasks[s].kind = "mine" =>
            /\ (\E p \in Addresses : tasks[s].out[p] # "none")
               => BlockStored(bchain[tasks[s].node], tasks[s].block)
            /\ (tasks[s].block # NoObj /\ ~BlockStored(bchain[tasks[s].node], tasks[s].block))
               => \A p \in Addresses : tasks[s].out[p] = "none"

\* a miner that knows a peer has built a block, failed to append it and answered
C37_Witness ==
    \E s \in Slots :
        /\ tasks[s].kind = "mine"
        /\ tasks[s].block # NoObj
        /\ tasks[s].pc = "done"
        /\ tasks[s].status = 500
        /\ \E i \in 1 .. Len(networkNodes[tasks[s].node]) :
              networkNodes[tasks[s].node][i] \in Nodes
        /\ \A p \in Addresses : tasks[s].out[p] = "none"

\* the identifiers of the rows of confirmed_transactions
C38_ConfirmedIds(rows) == {rows[i].transaction_id : i \in 1 .. Len(rows)}

\* C38: once a call of addBlockToBlockchain and everything it queued is over, its block
\* and all the block's transactions are stored if it resolved, and neither the block
\* nor any of its transactions is stored if it rejected, whatever else ran on the
\* connection meanwhile.
C38_AppendAtomic ==
    \A s \in Slots :
        (/\ tasks[s].kind = "append"
         /\ \A x \in Slots : tasks[x].kind = "append" => tasks[x].pc = "done")
        => LET n == tasks[s].node
               ids == TransactionIds(tasks[s].block.transactions)
               stored == BlockStored(bchain[n], tasks[s].block)
           IN  IF tasks[s].status = 0
               THEN stored /\ ids \subseteq C38_ConfirmedIds(confirmed[n])
               ELSE ~stored /\ ids \cap C38_ConfirmedIds(confirmed[n]) = {}

\* list l2 is list l1 with its last transaction once more at the end
C39_LastRepeated(l1, l2) == Len(l1) >= 1 /\ l2 = Append(l1, l1[Len(l1)])

\* C39 as stated: for a list of odd length, calculateMerkleRoot returns the same root
\* for the list and for the list with its last transaction repeated.
C39_OddListRepeatedLastSameRoot ==
    \A s1, s2 \in Slots :
        (/\ C28_Returned(s1) /\ C28_Returned(s2)
         /\ C39_LastRepeated(tasks[s1].pending, tasks[s2].pending)
         /\ Len(tasks[s1].pending) % 2 = 1)
        => tasks[s1].block.merkleRoot = tasks[s2].block.merkleRoot

\* C39: for a list of odd length greater than one, as [a, b, c], calculateMerkleRoot
\* returns the same root for the list and for the list with its last transaction
\* repeated; for a list of one transaction the two roots differ.
C39_LongerOddListRepeatedLastSameRoot ==
    \A s1, s2 \in Slots :
        (/\ C28_Returned(s1) /\ C28_Returned(s2)
         /\ C39_LastRepeated(tasks[s1].pending, tasks[s2].pending)
         /\ Len(tasks[s1].pending) % 2 = 1)
        => IF Len(tasks[s1].pending) > 1
           THEN tasks[s1].block.merkleRoot = tasks[s2].block.merkleRoot
           ELSE tasks[s1].block.merkleRoot # tasks[s2].block.merkleRoot

\* a list of three transactions and the same list with the third repeated have been
\* given, and the two roots are the same
C39_Witness ==
    /\ C28_Returned(1)
    /\ C28_Returned(2)
    /\ Len(tasks[1].pending) = 3
    /\ C39_LastRepeated(tasks[1].pending, tasks[2].pending)
    /\ tasks[1].pending # tasks[2].pending
    /\ tasks[1].block.merkleRoot = tasks[2].block.merkleRoot

====
